---- MODULE Spec2Model ----
(***************************************************************************)
(* Verification model of the volnux remote task execution plane:           *)
(*   - the task manager (BaseManager, RemoteTaskManager, GRPCManager),     *)
(*     its client task registry and result store;                          *)
(*   - the adaptive scaling engine (AdaptiveScalingEngine);                *)
(*   - the dynamic worker pool (DynamicProcessPoolExecutor).               *)
(* Each component has its own specification over the shared variables.     *)
(***************************************************************************)
EXTENDS Integers, Sequences, FiniteSets, TLC

(***************************************************************************)
(* Bounds of the model.                                                    *)
(***************************************************************************)
\* number of TaskNodes handle_task may build in one behaviour
MaxSubmits == 2
\* capacity of the ingress queue (MAX_PENDING_TASKS, scaled down)
MaxPendingTasks == 1
\* last value of the wall clock
MaxClock == 1

\* TASK_REGISTRY_TTL, scaled down to clock units
TaskRegistryTTL == 0

(***************************************************************************)
(* Inputs of the manager.                                                  *)
(***************************************************************************)
\* correlation ids a client may supply; "A" is a non-canonical spelling of
\* the UUID whose canonical string is "a"
Ids == {"a", "A"}
\* a correlation id that is not the text of a UUID
MalformedIds == {"x"}
\* the keys the registry can hold: it is keyed by the client's string
RegistryIds == Ids \cup MalformedIds
\* open TCP connections that submit tasks
Sockets == {"s1"}
\* event names: "echo" is registered and allowed, "boom" is registered and
\* allowed but its constructor raises, "ghost" is allowed but not registered,
\* "hidden" is registered but not allowed, "nope" is neither
Events == {"echo", "boom", "ghost", "hidden", "nope"}
AllowedEvents == {"echo", "boom", "ghost"}
RegisteredEvents == {"echo", "boom", "hidden"}
CtorRaises == {"boom"}

TaskNums == 1..MaxSubmits

VARIABLES
    registry,        \* ClientTaskRegistry.tasks
    results,         \* ResultStore.results
    task_queue,      \* BaseManager.task_queue
    running,         \* futures submitted to BaseManager.executor, not done
    response_queue,  \* BaseManager.response_queue
    rpc,             \* position of _route_response
    rres,            \* the result _route_response is routing
    rinfo,           \* task_info read by _route_response
    sock_open,       \* TCP connections not yet closed
    waiter,          \* per gRPC call: completion event and result slot
    ppc,             \* position of the POLL branch of _handle_client
    pcid,            \* task_id of the POLL being served
    poll_reply,      \* last reply sent for a POLL
    now,             \* wall clock
    nsub,            \* number of TaskNodes built so far
    tasks,           \* the submissions that built a TaskNode
    last_outcome,    \* what the last handle_task call raised, or "OK"
    delivered,       \* history: (result, client handle) pairs pushed
    parked,          \* history: results the router stored
    routed,          \* history: results whose _route_response returned
    poll_count,      \* history: how often a POLL returned each result
    fresh,           \* history: submissions whose register() found no record
    orphaned         \* history: TCP tasks that completed after their client left

\* configuration of the manager, and history of the handle_task calls
VARIABLES
    allowed_events,  \* CONF.ALLOWED_EVENTS
    last_event,      \* history: task_message.event of the last handle_task call
    ncalls,          \* history: number of handle_task calls
    last_frame       \* the error frame _handle_client sent for that call

ing_vars == <<allowed_events, last_event, ncalls, last_frame>>

mgr_vars == <<registry, results, task_queue, running, response_queue, rpc,
              rres, rinfo, sock_open, waiter, ppc, pcid, poll_reply, now,
              nsub, tasks, last_outcome, delivered, parked, routed,
              poll_count, fresh, orphaned>>

(***************************************************************************)
(* Data.                                                                   *)
(***************************************************************************)
NoContext == [socket |-> "none", waiter |-> 0]
NoTask == [correlation_id |-> "", protocol |-> "none",
           client_context |-> NoContext, created_at |-> 0]
NoSubmission == [correlation_id |-> "", protocol |-> "none",
                 client_context |-> NoContext, accepted |-> FALSE]
NoWaiter == [state |-> "none", data |-> 0]
NoReply == [correlation_id |-> "", status |-> "none", data |-> 0]

\* TaskNode.correlation_id is uuid.UUID(correlation_id) and the worker gets
\* str() of it: the canonical spelling of the id
Canon(c) == IF c = "A" THEN "a" ELSE c

\* the correlation_id field of the result of task n
ResultCid(n) == Canon(tasks[n].correlation_id)

\* dict union task | client_task: keys of the right operand win
Merge(task, client_task) ==
    [k \in (DOMAIN task) \cup (DOMAIN client_task) |->
        IF k \in DOMAIN client_task THEN client_task[k] ELSE task[k]]

\* ClientTaskRegistry.register
Register(reg, client_task) ==
    LET c == client_task.correlation_id IN
    IF reg[c] # NoTask
    THEN [reg EXCEPT ![c] = Merge(reg[c], client_task)]
    ELSE [reg EXCEPT ![c] = client_task]

\* ClientTaskRegistry.get_task
GetTask(reg, c) == reg[c]

\* a registry whose remove forgets nothing
RemoveKeepsRecord(reg, c) == reg

\* ClientTaskRegistry.remove
Remove(reg, c) == IF reg[c] # NoTask THEN [reg EXCEPT ![c] = NoTask] ELSE reg

\* a sweep that expires nothing
CleanupNothing(reg, t, ttl) == reg

\* ClientTaskRegistry.cleanup_expired
CleanupExpired(reg, t, ttl) ==
    [c \in DOMAIN reg |->
        IF reg[c] # NoTask /\ t - reg[c].created_at > ttl
        THEN NoTask ELSE reg[c]]

\* ResultStore.store
Store(res, c, n) == [res EXCEPT ![c] = n]

\* ResultStore.get: the data returned, and the store afterwards (pop)
StoreGetData(res, c) == res[c]
\* a get that reads without removing
StoreGetKeeps(res, c) == res
StoreGetRest(res, c) == [res EXCEPT ![c] = 0]

\* a gRPC route method that can be awaited
RouteGrpcAwaitable == TRUE

\* _route_tcp_response and _route_grpc_response of the concrete managers are
\* plain methods, not coroutines
RouteTcpIsCoroutine == FALSE
RouteGrpcIsCoroutine == FALSE

\* `await f(...)` in _route_response: awaiting the None a plain method
\* returned raises TypeError, after the method has run
AwaitRaises(isCoroutine) == ~isCoroutine

(***************************************************************************)
(* Initial state of the manager.                                           *)
(***************************************************************************)
NoFrame == [status |-> "none", code |-> "none", message |-> "none"]

\* the frame _handle_client sends when handling a message raised e
ErrorFrame(e) ==
    [status |-> "error", code |-> "PROCESSING_ERROR", message |-> e]

\* CONF.ALLOWED_EVENTS is allowed; no handle_task call yet
IngInitWith(allowed) ==
    /\ allowed_events = allowed
    /\ last_event = "none"
    /\ ncalls = 0
    /\ last_frame = NoFrame

MgrInitWith(socks) ==
    /\ registry = [c \in RegistryIds |-> NoTask]
    /\ results = [c \in Ids |-> 0]
    /\ task_queue = <<>>
    /\ running = {}
    /\ response_queue = <<>>
    /\ rpc = "idle"
    /\ rres = 0
    /\ rinfo = NoTask
    /\ sock_open = socks
    /\ waiter = [n \in TaskNums |-> NoWaiter]
    /\ ppc = "idle"
    /\ pcid = ""
    /\ poll_reply = NoReply
    /\ now = 0
    /\ nsub = 0
    /\ tasks = [n \in TaskNums |-> NoSubmission]
    /\ last_outcome = "none"
    /\ delivered = {}
    /\ parked = {}
    /\ routed = {}
    /\ poll_count = [n \in TaskNums |-> 0]
    /\ fresh = {}
    /\ orphaned = {}

\* a manager serving the connections of Sockets
MgrInit == MgrInitWith(Sockets)

(***************************************************************************)
(* BaseManager.handle_task.                                                *)
(***************************************************************************)
\* the checks handle_task makes before it registers the client task
Validate(ev) ==
    IF allowed_events # {} /\ ev \notin allowed_events
    THEN "EVENT_NOT_WHITELISTED"
    ELSE IF ev \notin RegisteredEvents THEN "EVENT_NOT_REGISTERED"
    ELSE IF ev \in CtorRaises THEN "INVALID_ARGS"
    ELSE "OK"

\* a queue that never reports Full
QueueNeverFull(q, maxsize) == FALSE

\* queue.Queue.put_nowait on a queue of capacity maxsize
QueueFull(q, maxsize) == maxsize > 0 /\ Len(q) >= maxsize

\* ids str(uuid.uuid4()) can return: canonical and never seen before
FreshIds == {c \in Ids : Canon(c) = c
                /\ \A n \in 1..nsub : tasks[n].correlation_id # c}

\* handle_task(task_message, protocol, client_context); raised is what the
\* call raised ("OK" when it returned)
HandleTaskBody(ev, c, protocol, ctx) ==
    LET v == Validate(ev) IN
    IF v # "OK"
    THEN /\ last_outcome' = v
         /\ UNCHANGED <<registry, task_queue, nsub, tasks, fresh>>
    ELSE /\ nsub < MaxSubmits
         /\ nsub' = nsub + 1
         /\ fresh' = IF GetTask(registry, c) = NoTask
                      THEN fresh \cup {nsub + 1} ELSE fresh
         /\ registry' = Register(registry,
                [correlation_id |-> c, protocol |-> protocol,
                 client_context |-> ctx, created_at |-> now])
         /\ IF c \in MalformedIds
            THEN \* uuid.UUID(correlation_id) raises ValueError
                 /\ last_outcome' = "ValueError"
                 /\ task_queue' = task_queue
                 /\ tasks' = [tasks EXCEPT ![nsub + 1] =
                        [correlation_id |-> c, protocol |-> protocol,
                         client_context |-> ctx, accepted |-> FALSE]]
            ELSE IF QueueFull(task_queue, MaxPendingTasks)
            THEN /\ last_outcome' = "QUEUE_FULL"
                 /\ task_queue' = task_queue
                 /\ tasks' = [tasks EXCEPT ![nsub + 1] =
                        [correlation_id |-> c, protocol |-> protocol,
                         client_context |-> ctx, accepted |-> FALSE]]
            ELSE /\ last_outcome' = "OK"
                 /\ task_queue' = Append(task_queue, nsub + 1)
                 /\ tasks' = [tasks EXCEPT ![nsub + 1] =
                        [correlation_id |-> c, protocol |-> protocol,
                         client_context |-> ctx, accepted |-> TRUE]]

\* a frame that is not a POLL arrives on TCP connection s: _handle_client
\* calls handle_task; when it raises, the handler sends an error frame and
\* leaves its loop, closing the connection
TcpSubmit(s, ev, c) ==
    /\ s \in sock_open
    /\ HandleTaskBody(ev, c, "tcp", [socket |-> s, waiter |-> 0])
    /\ sock_open' = IF last_outcome' # "OK" THEN sock_open \ {s} ELSE sock_open
    /\ UNCHANGED <<results, running, response_queue, rpc, rres, rinfo, waiter,
                   ppc, pcid, poll_reply, now, delivered, parked, routed,
                   poll_count, orphaned>>

\* TaskExecutorServicer._process_execution up to the wait: a fresh completion
\* event and result container, then handle_task; when it raises the call
\* returns the error
GrpcSubmit(ev, c) ==
    /\ nsub < MaxSubmits
    /\ HandleTaskBody(ev, c, "grpc", [socket |-> "none", waiter |-> nsub + 1])
    /\ waiter' = IF Validate(ev) # "OK" THEN waiter
                 ELSE [waiter EXCEPT ![nsub + 1] =
                        [state |-> IF last_outcome' = "OK" THEN "waiting"
                                   ELSE "error", data |-> 0]]
    /\ UNCHANGED <<results, running, response_queue, rpc, rres, rinfo,
                   sock_open, ppc, pcid, poll_reply, now, delivered, parked,
                   routed, poll_count, orphaned>>

\* a submission without correlation id: handle_task mints str(uuid.uuid4())
TcpSubmitMinted(s, ev) == \E c \in FreshIds : TcpSubmit(s, ev, c)
GrpcSubmitMinted(ev) == \E c \in FreshIds : GrpcSubmit(ev, c)

(***************************************************************************)
(* The submission loop and the workers.                                    *)
(***************************************************************************)
\* one iteration of _task_submission_loop_async that got a TaskNode
SubmissionLoop ==
    /\ task_queue # <<>>
    /\ running' = running \cup {Head(task_queue)}
    /\ task_queue' = Tail(task_queue)
    /\ UNCHANGED <<registry, results, response_queue, rpc, rres, rinfo,
                   sock_open, waiter, ppc, pcid, poll_reply, now, nsub, tasks,
                   last_outcome, delivered, parked, routed, poll_count, fresh, orphaned>>

\* execute_task_wrapper returns in a worker and _on_task_complete puts the
\* result on the response queue
OnTaskComplete(n) ==
    /\ n \in running
    /\ running' = running \ {n}
    /\ response_queue' = Append(response_queue, n)
    /\ orphaned' = IF tasks[n].protocol = "tcp"
                        /\ tasks[n].client_context.socket \notin sock_open
                     THEN orphaned \cup {n} ELSE orphaned
    /\ UNCHANGED <<registry, results, task_queue, rpc, rres, rinfo, sock_open,
                   waiter, ppc, pcid, poll_reply, now, nsub, tasks,
                   last_outcome, delivered, parked, routed, poll_count, fresh>>

\* the worker future fails (the worker process died, or the event or its
\* result could not be pickled): future.result() raises in
\* _on_task_complete, which logs the error and puts nothing on the queue
OnTaskFutureFailed(n) ==
    /\ n \in running
    /\ running' = running \ {n}
    /\ UNCHANGED <<registry, results, task_queue, response_queue, rpc, rres,
                   rinfo, sock_open, waiter, ppc, pcid, poll_reply, now, nsub,
                   tasks, last_outcome, delivered, parked, routed, poll_count,
                   fresh, orphaned>>

(***************************************************************************)
(* The response router: _response_router_loop_async and _route_response.   *)
(***************************************************************************)
\* dequeue a result and look its correlation id up in the registry
RouteGet ==
    /\ rpc = "idle"
    /\ response_queue # <<>>
    /\ rres' = Head(response_queue)
    /\ response_queue' = Tail(response_queue)
    /\ rinfo' = GetTask(registry, ResultCid(Head(response_queue)))
    /\ rpc' = IF rinfo' = NoTask THEN "missing" ELSE "dispatch"
    /\ UNCHANGED <<registry, results, task_queue, running, sock_open, waiter,
                   ppc, pcid, poll_reply, now, nsub, tasks, last_outcome,
                   delivered, parked, routed, poll_count, fresh, orphaned>>

\* no task_info: store the result and return
RouteParkMissing ==
    /\ rpc = "missing"
    /\ results' = Store(results, ResultCid(rres), rres)
    /\ parked' = parked \cup {rres}
    /\ routed' = routed \cup {rres}
    /\ rpc' = "idle"
    /\ rres' = 0
    /\ rinfo' = NoTask
    /\ UNCHANGED <<registry, task_queue, running, response_queue, sock_open,
                   waiter, ppc, pcid, poll_reply, now, nsub, tasks,
                   last_outcome, delivered, poll_count, fresh, orphaned>>

\* RemoteTaskManager._route_tcp_response: TRUE when the frame was written
TcpWrites(info) == info.client_context.socket \in sock_open

\* RemoteTaskManager._route_tcp_response raises when the send fails
TcpRaises(info) ==
    /\ info.client_context.socket # "none"
    /\ info.client_context.socket \notin sock_open

\* GRPCManager._route_grpc_response: the waiter whose slot is filled and
\* whose event is set (0: none)
GrpcSignals(info) == info.client_context.waiter

\* the try block of _route_response: does it reach the except branch
DispatchRaises(info) ==
    IF info.protocol = "tcp"
    THEN TcpRaises(info) \/ AwaitRaises(RouteTcpIsCoroutine)
    ELSE AwaitRaises(RouteGrpcIsCoroutine)

\* the protocol responder, and the store of the except branch
RouteDispatch ==
    /\ rpc = "dispatch"
    /\ IF rinfo.protocol = "tcp"
       THEN /\ delivered' = IF TcpWrites(rinfo)
                            THEN delivered \cup
                                 {[result |-> rres, handle |-> rinfo.client_context]}
                            ELSE delivered
            /\ waiter' = waiter
       ELSE /\ delivered' = IF GrpcSignals(rinfo) # 0
                            THEN delivered \cup
                                 {[result |-> rres, handle |-> rinfo.client_context]}
                            ELSE delivered
            /\ waiter' = IF GrpcSignals(rinfo) # 0
                         THEN [waiter EXCEPT ![GrpcSignals(rinfo)].data = rres]
                         ELSE waiter
    /\ IF DispatchRaises(rinfo)
       THEN /\ results' = Store(results, ResultCid(rres), rres)
            /\ parked' = parked \cup {rres}
       ELSE UNCHANGED <<results, parked>>
    /\ rpc' = "remove"
    /\ UNCHANGED <<registry, task_queue, running, response_queue, rres, rinfo,
                   sock_open, ppc, pcid, poll_reply, now, nsub, tasks,
                   last_outcome, routed, poll_count, fresh, orphaned>>

\* the finally branch of _route_response
RouteRemove ==
    /\ rpc = "remove"
    /\ registry' = Remove(registry, ResultCid(rres))
    /\ routed' = routed \cup {rres}
    /\ rpc' = "idle"
    /\ rres' = 0
    /\ rinfo' = NoTask
    /\ UNCHANGED <<results, task_queue, running, response_queue, sock_open,
                   waiter, ppc, pcid, poll_reply, now, nsub, tasks,
                   last_outcome, delivered, parked, poll_count, fresh, orphaned>>

(***************************************************************************)
(* The gRPC call waiting on its completion event.                          *)
(***************************************************************************)
\* completion_event.wait(timeout=300) returns True: the call returns the
\* data of its result container
GrpcWaitDone(n) ==
    /\ waiter[n].state = "waiting"
    /\ waiter[n].data # 0
    /\ waiter' = [waiter EXCEPT ![n].state = "done"]
    /\ UNCHANGED <<registry, results, task_queue, running, response_queue,
                   rpc, rres, rinfo, sock_open, ppc, pcid, poll_reply, now,
                   nsub, tasks, last_outcome, delivered, parked, routed,
                   poll_count, fresh, orphaned>>

\* completion_event.wait(timeout=300) returns False: the call returns
\* TASK_TIMEOUT
GrpcWaitTimeout(n) ==
    /\ waiter[n].state = "waiting"
    /\ waiter[n].data = 0
    /\ waiter' = [waiter EXCEPT ![n].state = "timeout"]
    /\ UNCHANGED <<registry, results, task_queue, running, response_queue,
                   rpc, rres, rinfo, sock_open, ppc, pcid, poll_reply, now,
                   nsub, tasks, last_outcome, delivered, parked, routed,
                   poll_count, fresh, orphaned>>

\* what _process_execution returned to the gRPC client of call n
GrpcReply(n) ==
    CASE waiter[n].state = "done" -> [message |-> "", data |-> waiter[n].data]
      [] waiter[n].state = "timeout" -> [message |-> "TASK_TIMEOUT", data |-> 0]
      [] waiter[n].state = "error" -> [message |-> "QUEUE_FULL", data |-> 0]
      [] OTHER -> [message |-> "none", data |-> 0]

(***************************************************************************)
(* The POLL branch of RemoteTaskManager._handle_client.                    *)
(***************************************************************************)
\* step 1: pop the result store; a result found is sent back
PollStore(c) ==
    /\ ppc = "idle"
    /\ results' = StoreGetRest(results, c)
    /\ IF StoreGetData(results, c) # 0
       THEN /\ poll_reply' = [correlation_id |-> c, status |-> "RESULT",
                              data |-> StoreGetData(results, c)]
            /\ poll_count' = [poll_count EXCEPT
                                ![StoreGetData(results, c)] = @ + 1]
            /\ UNCHANGED <<ppc, pcid>>
       ELSE /\ ppc' = "registry"
            /\ pcid' = c
            /\ UNCHANGED <<poll_reply, poll_count, fresh>>
    /\ UNCHANGED <<registry, task_queue, running, response_queue, rpc, rres,
                   rinfo, sock_open, waiter, now, nsub, tasks, last_outcome,
                   delivered, parked, routed, fresh, orphaned>>

\* a status that is PENDING whatever the registry holds
AlwaysPending(reg, c) == "PENDING"

\* a status that is NOT_FOUND whatever the registry holds
AlwaysNotFound(reg, c) == "NOT_FOUND"

\* the status of a POLL that found no result: PENDING when the registry
\* tracks the id, else NOT_FOUND
PollStatus(reg, c) ==
    IF GetTask(reg, c) # NoTask THEN "PENDING" ELSE "NOT_FOUND"

\* step 2: no result; reply with the status the registry gives
PollRegistry ==
    /\ ppc = "registry"
    /\ poll_reply' = [correlation_id |-> pcid,
                      status |-> PollStatus(registry, pcid),
                      data |-> 0]
    /\ ppc' = "idle"
    /\ pcid' = ""
    /\ UNCHANGED <<registry, results, task_queue, running, response_queue,
                   rpc, rres, rinfo, sock_open, waiter, now, nsub, tasks,
                   last_outcome, delivered, parked, routed, poll_count, fresh, orphaned>>

(***************************************************************************)
(* Clients leaving, time, and the cleanup loop.                            *)
(***************************************************************************)
\* the client of connection s disconnects; _handle_client closes the socket
Disconnect(s) ==
    /\ s \in sock_open
    /\ sock_open' = sock_open \ {s}
    /\ UNCHANGED <<registry, results, task_queue, running, response_queue,
                   rpc, rres, rinfo, waiter, ppc, pcid, poll_reply, now, nsub,
                   tasks, last_outcome, delivered, parked, routed, poll_count, fresh, orphaned>>

\* time passes
ClockTick ==
    /\ now < MaxClock
    /\ now' = now + 1
    /\ UNCHANGED <<registry, results, task_queue, running, response_queue,
                   rpc, rres, rinfo, sock_open, waiter, ppc, pcid, poll_reply,
                   nsub, tasks, last_outcome, delivered, parked, routed,
                   poll_count, fresh, orphaned>>

\* one iteration of _registry_cleanup_loop_async
RegistryCleanupLoop ==
    /\ registry' = CleanupExpired(registry, now, TaskRegistryTTL)
    /\ UNCHANGED <<results, task_queue, running, response_queue, rpc, rres,
                   rinfo, sock_open, waiter, ppc, pcid, poll_reply, now, nsub,
                   tasks, last_outcome, delivered, parked, routed, poll_count, fresh, orphaned>>

(***************************************************************************)
(* The adaptive scaling engine: AdaptiveScalingEngine and ScalingConfig.   *)
(* CPU cores and memory GB are counted in tenths, thresholds in percent.   *)
(***************************************************************************)
\* bounds of the engine and pool model
MaxTime == 3
MaxQueueLen == 3
MaxTargetArg == 4
\* scale_down_timeout, scaled down to clock units
ScaleDownTimeout == 2

\* ScalingConfig defaults
CpuPerWorker == 10
MemoryPerWorker == 5
ParallelismMultiplier == 2
ScaleUpThreshold == 70
CpuThresholdScaleDown == 30
CpuThresholdScaleUp == 85
MemoryThreshold == 90
AggressiveScaling == TRUE

\* the configurations an engine is built with
Configs ==
    [min_workers : {1, 2}, max_cpu_quota : {10, 30}, max_memory_quota : {10, 20},
     parallelism_multiplier : {ParallelismMultiplier}]
\* ScalingConfig() with quotas that allow three workers
DefaultConfig ==
    [min_workers |-> 1, max_cpu_quota |-> 30, max_memory_quota |-> 20,
     parallelism_multiplier |-> ParallelismMultiplier]

\* what the system monitor may report on a tick
CpuReadings == {0, 30}
MemoryReadings == {1, 19}

VARIABLES
    config,                  \* AdaptiveScalingEngine.config
    max_workers,             \* AdaptiveScalingEngine.max_workers
    target_workers,          \* AdaptiveScalingEngine.target_workers
    task_queue_length,       \* AdaptiveScalingEngine.task_queue_length
    last_scale_action_time,  \* AdaptiveScalingEngine.last_scale_action_time
    last_scale_action,       \* AdaptiveScalingEngine.last_scale_action
    etime,                   \* time.time()
    mpc,                     \* position of the monitor thread in _monitor_loop
    m_target,                \* metrics["target_workers"] of this iteration
    m_up,                    \* should_up of this iteration
    m_down,                  \* should_down of this iteration
    last_change_time         \* history: when target_workers last changed

eng_vars == <<config, max_workers, target_workers, task_queue_length,
              last_scale_action_time, last_scale_action, etime,
              mpc, m_target, m_up, m_down, last_change_time>>

Min(a, b) == IF a < b THEN a ELSE b
Max(a, b) == IF a > b THEN a ELSE b

\* AdaptiveScalingEngine._calculate_max_workers
CalculateMaxWorkers(cfg) ==
    LET cpu_based == cfg.max_cpu_quota \div CpuPerWorker
        memory_based == cfg.max_memory_quota \div MemoryPerWorker
        w_max == Min(cpu_based, memory_based)
    IN Max(w_max, cfg.min_workers)

\* the batch size with the scaled product rounded up
CalculateOptimalBatchSizeRoundUp(cfg, target, qlen) ==
    LET base_batch_size == cfg.parallelism_multiplier * target
        adjusted_size ==
            IF qlen < target THEN (base_batch_size * 3 + 1) \div 2
            ELSE IF qlen > target * 5 THEN (base_batch_size + 1) \div 2
            ELSE base_batch_size
    IN Max(adjusted_size, cfg.min_workers)

\* AdaptiveScalingEngine.calculate_optimal_batch_size; int() of a
\* non-negative product drops its fraction
CalculateOptimalBatchSize(cfg, target, qlen) ==
    LET base_batch_size == cfg.parallelism_multiplier * target
        adjusted_size ==
            IF qlen < target THEN (base_batch_size * 3) \div 2
            ELSE IF qlen > target * 5 THEN base_batch_size \div 2
            ELSE base_batch_size
    IN Max(adjusted_size, cfg.min_workers)

\* AdaptiveScalingEngine._check_resource_constraints
CpuAvailable(cfg, cpu) == cpu * 100 < cfg.max_cpu_quota * CpuThresholdScaleUp
CpuUnderutilized(cfg, cpu) == cpu * 100 < cfg.max_cpu_quota * CpuThresholdScaleDown
MemoryAvailable(cfg, mem) == mem * 100 < cfg.max_memory_quota * MemoryThreshold

\* should_scale_up without the memory check
ShouldScaleUpNoMemory(cfg, target, maxw, qlen, cpu, mem) ==
    IF target >= maxw THEN FALSE
    ELSE IF ~CpuAvailable(cfg, cpu) THEN FALSE
    ELSE qlen * 100 >= target * ScaleUpThreshold

\* AdaptiveScalingEngine.should_scale_up
ShouldScaleUp(cfg, target, maxw, qlen, cpu, mem) ==
    IF target >= maxw THEN FALSE
    ELSE IF ~CpuAvailable(cfg, cpu) THEN FALSE
    ELSE IF ~MemoryAvailable(cfg, mem) THEN FALSE
    ELSE qlen * 100 >= target * ScaleUpThreshold

\* should_scale_down without the idle timeout
ShouldScaleDownNoTimeout(cfg, target, qlen, cpu, t, last) ==
    IF target <= cfg.min_workers THEN FALSE
    ELSE IF qlen > 0 THEN FALSE
    ELSE CpuUnderutilized(cfg, cpu) /\ qlen = 0

\* AdaptiveScalingEngine.should_scale_down
ShouldScaleDown(cfg, target, qlen, cpu, t, last) ==
    IF target <= cfg.min_workers THEN FALSE
    ELSE IF qlen > 0 THEN FALSE
    ELSE IF CpuUnderutilized(cfg, cpu) /\ qlen = 0
         THEN t - last >= ScaleDownTimeout
         ELSE FALSE

\* a target taken as given
UnclampedTarget(cfg, maxw, count) == count

\* the clamp of set_target_worker_count
ClampTarget(cfg, maxw, count) == Max(cfg.min_workers, Min(count, maxw))

\* AdaptiveScalingEngine.set_target_worker_count
SetTargetWorkerCountBody(count) ==
    LET c == ClampTarget(config, max_workers, count) IN
    IF c # target_workers
    THEN /\ target_workers' = c
         /\ last_scale_action_time' = etime
         /\ last_scale_action' = IF c > target_workers THEN "up" ELSE "down"
         /\ last_change_time' = etime
    ELSE UNCHANGED <<target_workers, last_scale_action_time, last_scale_action,
                     last_change_time>>

\* AdaptiveScalingEngine.__init__ with configuration cfg
EngInitWith(cfg) ==
    /\ config = cfg
    /\ max_workers = CalculateMaxWorkers(cfg)
    /\ target_workers = cfg.min_workers
    /\ task_queue_length = 0
    /\ last_scale_action_time = 0
    /\ last_scale_action = "none"
    /\ etime = 0
    /\ mpc = "idle"
    /\ m_target = cfg.min_workers
    /\ m_up = FALSE
    /\ m_down = FALSE
    /\ last_change_time = -1

\* _monitor_loop: metrics = self.get_metrics()
MonitorGetMetrics ==
    /\ mpc = "idle"
    /\ mpc' = "should_up"
    /\ m_target' = target_workers
    /\ UNCHANGED <<config, max_workers, target_workers, task_queue_length,
                   last_scale_action_time, last_scale_action, etime,
                   m_up, m_down, last_change_time>>

\* _monitor_loop: should_up, up_reason = self.should_scale_up()
MonitorShouldScaleUp(cpu, mem) ==
    /\ mpc = "should_up"
    /\ mpc' = "should_down"
    /\ m_up' = (AggressiveScaling /\
                ShouldScaleUp(config, target_workers, max_workers,
                              task_queue_length, cpu, mem))
    /\ UNCHANGED <<config, max_workers, target_workers, task_queue_length,
                   last_scale_action_time, last_scale_action, etime,
                   m_target, m_down, last_change_time>>

\* _monitor_loop: should_down, down_reason = self.should_scale_down()
MonitorShouldScaleDown(cpu) ==
    /\ mpc = "should_down"
    /\ mpc' = "apply"
    /\ m_down' = (AggressiveScaling /\
                  ShouldScaleDown(config, target_workers, task_queue_length,
                                  cpu, etime, last_scale_action_time))
    /\ UNCHANGED <<config, max_workers, target_workers, task_queue_length,
                   last_scale_action_time, last_scale_action, etime,
                   m_target, m_up, last_change_time>>

\* the adjustment with the two branches in the other order
TickTargetDownFirst(up, down, cfg, target, maxw) ==
    IF down THEN Max(target - 1, cfg.min_workers)
    ELSE IF up THEN Min(target + 1, maxw)
    ELSE target

\* _monitor_loop, the if/elif that picks the new target: one more when
\* should_scale_up said so, else one fewer when should_scale_down said so
TickTarget(up, down, cfg, target, maxw) ==
    IF up THEN Min(target + 1, maxw)
    ELSE IF down THEN Max(target - 1, cfg.min_workers)
    ELSE target

\* _monitor_loop: the "if should_up / elif should_down" adjustment

MonitorApply ==
    /\ mpc = "apply"
    /\ mpc' = "callback"
    /\ IF m_up \/ m_down
       THEN SetTargetWorkerCountBody(
                TickTarget(m_up, m_down, config, target_workers,
                           max_workers))
       ELSE UNCHANGED <<target_workers, last_scale_action_time,
                        last_scale_action, last_change_time>>
    /\ UNCHANGED <<config, max_workers, task_queue_length, etime,
                   m_target, m_up, m_down>>

\* _monitor_loop started without a callback: sleep until the next iteration
MonitorNoCallback ==
    /\ mpc = "callback"
    /\ mpc' = "idle"
    /\ UNCHANGED <<config, max_workers, target_workers, task_queue_length,
                   last_scale_action_time, last_scale_action, etime,
                   m_target, m_up, m_down, last_change_time>>

\* set_target_worker_count called by another thread
SetTargetWorkerCount(count) ==
    /\ SetTargetWorkerCountBody(count)
    /\ UNCHANGED <<config, max_workers, task_queue_length, etime,
                   mpc, m_target, m_up, m_down>>

\* update_queue_length called by another thread
UpdateQueueLength(length) ==
    /\ task_queue_length' = length
    /\ UNCHANGED <<config, max_workers, target_workers,
                   last_scale_action_time, last_scale_action, etime,
                   mpc, m_target, m_up, m_down, last_change_time>>

\* time.time() advances
TimePasses ==
    /\ etime < MaxTime
    /\ etime' = etime + 1
    /\ UNCHANGED <<config, max_workers, target_workers, task_queue_length,
                   last_scale_action_time, last_scale_action,
                   mpc, m_target, m_up, m_down, last_change_time>>

(***************************************************************************)
(* The dynamic worker pool: DynamicProcessPoolExecutor and QueuedFuture.   *)
(***************************************************************************)
\* number of submit() calls
MaxTasks == 2

Futures == 1..MaxTasks

VARIABLES
    pending_tasks,         \* DynamicProcessPoolExecutor._pending_tasks
    fstate,                \* state of each proxy future
    nfut,                  \* len(_all_futures)
    spc,                   \* position of the thread calling submit()
    executor,              \* the pool self.executor refers to: "live"/"shutdown"
    executor_lock,         \* holder of _executor_lock
    current_worker_count,  \* DynamicProcessPoolExecutor.current_worker_count
    lpc,                   \* position of the submission thread
    l_left,                \* iterations left of "for _ in range(batch_size)"
    l_hand,                \* the queued_future the submission thread holds
    resized                \* history: futures unfinished when a pool was shut down

pool_vars == <<pending_tasks, fstate, nfut, spc, executor, executor_lock,
               current_worker_count, lpc, l_left, l_hand, resized>>

\* a lock that never excludes anyone
LockAlwaysFree(lock) == TRUE

\* "with self._executor_lock" can be entered
LockFree(lock) == lock = "none"

\* DynamicProcessPoolExecutor.__init__ over configuration cfg
PoolInitWith(cfg) ==
    /\ pending_tasks = <<>>
    /\ fstate = [f \in Futures |-> "new"]
    /\ nfut = 0
    /\ spc = "idle"
    /\ executor = "live"
    /\ executor_lock = "none"
    /\ current_worker_count = cfg.min_workers
    /\ lpc = "idle"
    /\ l_left = 0
    /\ l_hand = 0
    /\ resized = {}

\* submit: wrap in a QueuedFuture, put it, append it to _all_futures
SubmitPut ==
    /\ spc = "idle"
    /\ nfut < MaxTasks
    /\ nfut' = nfut + 1
    /\ pending_tasks' = Append(pending_tasks, nfut + 1)
    /\ fstate' = [fstate EXCEPT ![nfut + 1] = "queued"]
    /\ spc' = "publish"
    /\ UNCHANGED <<executor, executor_lock, current_worker_count, lpc, l_left,
                   l_hand, resized>>
    /\ UNCHANGED eng_vars

\* submit: scaling_engine.update_queue_length(_pending_tasks.qsize())
SubmitPublish ==
    /\ spc = "publish"
    /\ spc' = "idle"
    /\ task_queue_length' = Len(pending_tasks)
    /\ UNCHANGED <<pending_tasks, fstate, nfut, executor, executor_lock,
                   current_worker_count, lpc, l_left, l_hand, resized>>
    /\ UNCHANGED <<config, max_workers, target_workers,
                   last_scale_action_time, last_scale_action, etime,
                   mpc, m_target, m_up, m_down, last_change_time>>

\* _submission_loop: batch_size = calculate_optimal_batch_size()
LoopBegin ==
    /\ lpc = "idle"
    /\ lpc' = "get"
    /\ l_left' = CalculateOptimalBatchSize(config, target_workers,
                                           task_queue_length)
    /\ UNCHANGED <<pending_tasks, fstate, nfut, spc, executor, executor_lock,
                   current_worker_count, l_hand, resized>>
    /\ UNCHANGED eng_vars

\* a get that leaves the proxy on the pending queue
LoopGetPeek ==
    /\ lpc = "get"
    /\ IF l_left > 0 /\ pending_tasks # <<>>
       THEN /\ l_hand' = Head(pending_tasks)
            /\ fstate' = [fstate EXCEPT ![Head(pending_tasks)] = "taken"]
            /\ lpc' = "submit"
            /\ UNCHANGED pending_tasks
       ELSE /\ lpc' = "publish"
            /\ UNCHANGED <<l_hand, pending_tasks, fstate>>
    /\ UNCHANGED <<nfut, spc, executor, executor_lock, current_worker_count,
                   l_left, resized>>
    /\ UNCHANGED eng_vars

\* a get that goes on while the queue holds a proxy, whatever the batch size
LoopGetUnbounded ==
    /\ lpc = "get"
    /\ IF pending_tasks # <<>>
       THEN /\ l_hand' = Head(pending_tasks)
            /\ pending_tasks' = Tail(pending_tasks)
            /\ fstate' = [fstate EXCEPT ![Head(pending_tasks)] = "taken"]
            /\ lpc' = "submit"
       ELSE /\ lpc' = "publish"
            /\ UNCHANGED <<l_hand, pending_tasks, fstate>>
    /\ UNCHANGED <<nfut, spc, executor, executor_lock, current_worker_count,
                   l_left, resized>>
    /\ UNCHANGED eng_vars

\* _submission_loop: _pending_tasks.get(timeout=0.01), or the end of the batch
LoopGet ==
    /\ lpc = "get"
    /\ IF l_left > 0 /\ pending_tasks # <<>>
       THEN /\ l_hand' = Head(pending_tasks)
            /\ pending_tasks' = Tail(pending_tasks)
            /\ fstate' = [fstate EXCEPT ![Head(pending_tasks)] = "taken"]
            /\ lpc' = "submit"
       ELSE /\ lpc' = "publish"
            /\ UNCHANGED <<l_hand, pending_tasks, fstate>>
    /\ UNCHANGED <<nfut, spc, executor, executor_lock, current_worker_count,
                   l_left, resized>>
    /\ UNCHANGED eng_vars

\* _submission_loop: with _executor_lock: executor.submit(...), then
\* set_real_future; submit on a pool that was shut down raises RuntimeError,
\* which the outer except logs, ending the cycle without the future
LoopSubmit ==
    /\ lpc = "submit"
    /\ LockFree(executor_lock)
    /\ IF executor = "live"
       THEN /\ fstate' = [fstate EXCEPT ![l_hand] = "submitted"]
            /\ l_left' = l_left - 1
            /\ lpc' = "get"
       ELSE /\ fstate' = [fstate EXCEPT ![l_hand] = "lost"]
            /\ l_left' = 0
            /\ lpc' = "idle"
    /\ l_hand' = 0
    /\ UNCHANGED <<pending_tasks, nfut, spc, executor, executor_lock,
                   current_worker_count, resized>>
    /\ UNCHANGED eng_vars

\* _submission_loop: update_queue_length(_pending_tasks.qsize()), sleep
LoopPublish ==
    /\ lpc = "publish"
    /\ lpc' = "idle"
    /\ l_left' = 0
    /\ task_queue_length' = Len(pending_tasks)
    /\ UNCHANGED <<pending_tasks, fstate, nfut, spc, executor, executor_lock,
                   current_worker_count, l_hand, resized>>
    /\ UNCHANGED <<config, max_workers, target_workers,
                   last_scale_action_time, last_scale_action, etime,
                   mpc, m_target, m_up, m_down, last_change_time>>

\* a pool process finishes the task; QueuedFuture._propagate_result
WorkerDone(f) ==
    /\ fstate[f] = "submitted"
    /\ fstate' = [fstate EXCEPT ![f] = "done"]
    /\ UNCHANGED <<pending_tasks, nfut, spc, executor, executor_lock,
                   current_worker_count, lpc, l_left, l_hand, resized>>
    /\ UNCHANGED eng_vars

\* _scaling_callback(metrics); _rescale_executor up to executor.shutdown
ScalingCallback ==
    /\ mpc = "callback"
    /\ IF m_target # current_worker_count
       THEN /\ LockFree(executor_lock)
            /\ executor_lock' = "rescale"
            /\ executor' = "shutdown"
            /\ mpc' = "rescale"
            /\ resized' = resized \cup
                   {f \in Futures :
                       fstate[f] \in {"queued", "taken", "submitted"}}
       ELSE /\ mpc' = "idle"
            /\ UNCHANGED <<executor_lock, executor, resized>>
    /\ UNCHANGED <<pending_tasks, fstate, nfut, spc, current_worker_count,
                   lpc, l_left, l_hand>>
    /\ UNCHANGED <<config, max_workers, target_workers, task_queue_length,
                   last_scale_action_time, last_scale_action, etime,
                   m_target, m_up, m_down, last_change_time>>

\* _rescale_executor: set current_worker_count, create the new pool, unlock
RescaleCreate ==
    /\ mpc = "rescale"
    /\ current_worker_count' = m_target
    /\ executor' = "live"
    /\ executor_lock' = "none"
    /\ mpc' = "idle"
    /\ UNCHANGED <<pending_tasks, fstate, nfut, spc, lpc, l_left, l_hand,
                   resized>>
    /\ UNCHANGED <<config, max_workers, target_workers, task_queue_length,
                   last_scale_action_time, last_scale_action, etime,
                   m_target, m_up, m_down, last_change_time>>

\* What system_monitor reported to the monitor loop's last evaluations
\* (get_cpu_usage, get_memory_usage), in percent and in memory units
VARIABLES m_cpu, m_mem

\* QueuedFuture as its holder sees it
VARIABLES
    proxy_state,          \* Future._state of each proxy future
    cancelled_in_queue,   \* history: proxies cancelled while in _pending_tasks
    forwarded,            \* history: proxies whose cancel() reached the real future
    real_value,           \* what each finished real future holds
    proxy_value,          \* what each finished proxy future holds
    proxy_callbacks       \* times the proxy's done-callbacks were invoked

can_vars == <<proxy_state, cancelled_in_queue, forwarded, real_value,
              proxy_value, proxy_callbacks>>

CancelInit ==
    /\ proxy_state = [f \in Futures |-> "PENDING"]
    /\ cancelled_in_queue = {}
    /\ forwarded = {}
    /\ real_value = [f \in Futures |-> "none"]
    /\ proxy_value = [f \in Futures |-> "none"]
    /\ proxy_callbacks = [f \in Futures |-> 0]

\* QueuedFuture.cancel with _real_future None: Future.cancel marks the
\* proxy cancelled and invokes its done-callbacks (a proxy cancelled before
\* stays as it is); nothing else learns of it
CancelProxy(f) ==
    /\ fstate[f] \in {"queued", "taken", "lost"}
    /\ proxy_state' = [proxy_state EXCEPT ![f] = "CANCELLED"]
    /\ proxy_callbacks' = IF proxy_state[f] = "PENDING"
                          THEN [proxy_callbacks EXCEPT ![f] = @ + 1]
                          ELSE proxy_callbacks
    /\ UNCHANGED <<real_value, proxy_value>>
    /\ cancelled_in_queue' = IF fstate[f] = "queued"
                             THEN cancelled_in_queue \cup {f}
                             ELSE cancelled_in_queue
    /\ UNCHANGED <<forwarded, pool_vars, eng_vars>>

\* QueuedFuture.cancel with a real future: the call goes to the real future,
\* which is cancelled if the pool has not started it and refuses otherwise.
\* A real future that becomes cancelled runs _propagate_result, whose
\* self.cancel() is again QueuedFuture.cancel and goes back to the real
\* future: the proxy's own state is not touched
CancelReal(f) ==
    /\ fstate[f] \in {"submitted", "done"}
    /\ forwarded' = forwarded \cup {f}
    /\ \/ /\ fstate[f] = "submitted"
          /\ fstate' = [fstate EXCEPT ![f] = "real_cancelled"]
       \/ UNCHANGED fstate
    /\ UNCHANGED <<pending_tasks, nfut, spc, executor, executor_lock,
                   current_worker_count, lpc, l_left, l_hand, resized>>
    /\ UNCHANGED <<proxy_state, cancelled_in_queue, eng_vars>>
    /\ UNCHANGED <<real_value, proxy_value, proxy_callbacks>>

\* QueuedFuture.cancel
Cancel(f) == CancelProxy(f) \/ CancelReal(f)

\* the values a finished future can hold
FutureValues == {"result", "exception"}

\* Future.set_result / Future.set_exception on a future in state st: a
\* pending future finishes; on a cancelled or finished one the call raises
\* InvalidStateError and changes nothing
SetFinished(st) == IF st = "PENDING" THEN "FINISHED" ELSE st

\* a pool process finishes the task of real future f with value v, and the
\* real future's done-callback QueuedFuture._propagate_result runs: the
\* elif/else branches call set_exception or set_result on the proxy
PropagateResult(f, v) ==
    /\ WorkerDone(f)
    /\ real_value' = [real_value EXCEPT ![f] = v]
    /\ proxy_state' = [proxy_state EXCEPT ![f] = SetFinished(@)]
    /\ IF proxy_state[f] = "PENDING"
       THEN /\ proxy_value' = [proxy_value EXCEPT ![f] = v]
            /\ proxy_callbacks' = [proxy_callbacks EXCEPT ![f] = @ + 1]
       ELSE UNCHANGED <<proxy_value, proxy_callbacks>>
    /\ UNCHANGED <<cancelled_in_queue, forwarded>>

\* the terminal state of the real future of f ("none": not terminal)
RealTerminal(f) ==
    CASE fstate[f] = "real_cancelled" -> "cancelled"
      [] fstate[f] = "done" -> real_value[f]
      [] OTHER -> "none"

\* the terminal state of proxy future f ("none": not terminal)
ProxyTerminal(f) ==
    CASE proxy_state[f] = "CANCELLED" -> "cancelled"
      [] proxy_state[f] = "FINISHED" -> proxy_value[f]
      [] OTHER -> "none"

obs_vars == <<m_cpu, m_mem>>

ObsInit ==
    /\ m_cpu = 0
    /\ m_mem = 0

(***************************************************************************)
(* The event registry (volnux/registry.py).                                *)
(***************************************************************************)
\* Event classes: 1 and 2 share the name E in different modules, 3 is a
\* second class object of module m1 named E (the module was reloaded), 4 is
\* another class of module m1
Classes == {1, 2, 3, 4}
Modules == {"m1", "m2"}
ClassNames == {"E", "F"}
ClassModule == <<"m1", "m2", "m1", "m1">>
ClassName == <<"E", "E", "E", "F">>
NoClass == 0
NoName == "None"
MaxRegistryCalls == 4

VARIABLES
    all_classes,     \* Registry.all_classes, per module and class name
    reg_modules,     \* the module labels that are keys of Registry.all_classes
    name_registry,   \* Registry._name_registry
    ready,           \* Registry.ready
    reg_call,        \* history: the last call made on the registry
    reg_outcome,     \* history: how the last call ended
    reg_calls        \* history: number of calls made

evr_vars == <<all_classes, reg_modules, name_registry, ready, reg_call,
              reg_outcome, reg_calls>>

RegistryInit ==
    /\ all_classes = [m \in Modules |-> [n \in ClassNames |-> NoClass]]
    /\ reg_modules = {}
    /\ name_registry = [n \in ClassNames |-> NoClass]
    /\ ready = FALSE
    /\ reg_call = <<"none">>
    /\ reg_outcome = "none"
    /\ reg_calls = 0

RegistryCalled(call) ==
    /\ reg_calls < MaxRegistryCalls
    /\ reg_calls' = reg_calls + 1
    /\ reg_call' = call

\* the name register() files the class under
RegisteredName(klass, name) == IF name = NoName THEN ClassName[klass] ELSE name

\* set_ready never called
SetReadyNever(r) == r

\* Registry.set_ready
SetReady(r) == TRUE

\* Registry.register
RegistryRegister(klass, name) ==
    LET module_label == ClassModule[klass]
        klass_name == ClassName[klass]
        existing == all_classes[module_label][klass_name]
        same == /\ ClassName[klass] = ClassName[existing]
                /\ ClassModule[klass] = ClassModule[existing]
    IN /\ RegistryCalled(<<"register", klass, name>>)
       /\ reg_modules' = reg_modules \cup {module_label}
       /\ IF existing # NoClass /\ ~same
          THEN /\ reg_outcome' = "RuntimeError"
               /\ UNCHANGED <<all_classes, name_registry, ready>>
          ELSE /\ reg_outcome' = IF existing # NoClass THEN "warned" ELSE "ok"
               /\ all_classes' =
                      [all_classes EXCEPT ![module_label][klass_name] = klass]
               /\ name_registry' =
                      [name_registry EXCEPT
                          ![RegisteredName(klass, name)] = klass]
               /\ ready' = SetReady(ready)

\* Registry.get_class: the lookup in the defaultdict creates the module's
\* entry when it is missing
RegistryGetClass(module_label, klass_name) ==
    /\ RegistryCalled(<<"get_class", module_label, klass_name>>)
    /\ reg_modules' = reg_modules \cup {module_label}
    /\ reg_outcome' = IF all_classes[module_label][klass_name] = NoClass
                      THEN "LookupError" ELSE "found"
    /\ UNCHANGED <<all_classes, name_registry, ready>>

\* Registry.get_by_name
RegistryGetByName(klass_name) ==
    /\ RegistryCalled(<<"get_by_name", klass_name>>)
    /\ reg_outcome' = IF name_registry[klass_name] = NoClass
                      THEN "None" ELSE "found"
    /\ UNCHANGED <<all_classes, reg_modules, name_registry, ready>>

\* Registry.clear
RegistryClear ==
    /\ RegistryCalled(<<"clear">>)
    /\ all_classes' = [m \in Modules |-> [n \in ClassNames |-> NoClass]]
    /\ reg_modules' = {}
    /\ name_registry' = [n \in ClassNames |-> NoClass]
    /\ ready' = FALSE
    /\ reg_outcome' = "ok"

\* ResultStore entries carry the time they were stored
TaskResultTTL == 0
NoStamp == -1

VARIABLES stored_at   \* entry["timestamp"] of each ResultStore entry

sto_vars == <<stored_at>>

StampInit == stored_at = [c \in Ids |-> NoStamp]

\* ResultStore.store stamps the entry with the current time; get and
\* cleanup drop the stamp with the entry
StampStore ==
    stored_at' = [c \in Ids |->
                    IF results'[c] = 0 THEN NoStamp
                    ELSE IF results'[c] # results[c] THEN now
                    ELSE stored_at[c]]

\* ResultStore.cleanup
StoreCleanup(res, stamps, t, ttl) ==
    [c \in DOMAIN res |->
        IF res[c] # 0 /\ t - stamps[c] > ttl THEN 0 ELSE res[c]]

(***************************************************************************)
(* Payload signatures (volnux/executors/checksum.py, base_remote_executor). *)
(* The digest is scaled down from 256 bits to 3 and the base64 alphabet     *)
(* from 64 symbols of 6 bits to 4 symbols of 2 bits: a digest is written as *)
(* two symbols, the second of which carries one bit that means nothing,     *)
(* as the 43rd symbol of a real signature carries two.                      *)
(***************************************************************************)
\* the mappings a TaskMessage dumps to
SignedMessages == [event : {"echo", "boom"}, args : {0, 1}]

\* json.dumps(data, sort_keys=True): the fields in key order
JsonDumps(data) == <<<<"args", data.args>>, <<"event", data.event>>>>

\* hmac.new(key, data_bytes, sha256).digest(): different bytes, different
\* digests
HmacDigest(data_bytes) ==
    (IF data_bytes[2][2] = "echo" THEN 0 ELSE 4) + 2 * data_bytes[1][2] + 1

\* symbols of the alphabet, and a character outside it
B64Alphabet == 0..3
B64Other == 9
B64Chars == B64Alphabet \cup {B64Other}
B64Error == -1
NoSignature == <<-2>>
MaxSignatureLen == 3

\* base64.b64encode
B64Encode(digest) == <<digest \div 2, (digest % 2) * 2>>

\* the characters of the alphabet, in order
RECURSIVE B64Filter(_)
B64Filter(str) ==
    IF str = <<>> THEN <<>>
    ELSE IF Head(str) \in B64Alphabet
         THEN <<Head(str)>> \o B64Filter(Tail(str))
         ELSE B64Filter(Tail(str))

\* base64.b64decode(s) with validate=False: characters outside the alphabet
\* are discarded, the bits of the last symbol that belong to no byte are
\* ignored, and a wrong number of symbols raises binascii.Error
B64Decode(str) ==
    LET symbols == B64Filter(str)
    IN IF Len(symbols) # 2 THEN B64Error
       ELSE symbols[1] * 2 + (symbols[2] \div 2)

\* generate_signature / BaseRemoteExecutor._generate_hmac
GenerateSignature(data) == B64Encode(HmacDigest(JsonDumps(data)))

\* BaseRemoteExecutor.construct_payload
ConstructPayload(data) ==
    [event |-> data.event, args |-> data.args,
     signature |-> GenerateSignature(data), algorithm |-> "sha256"]

\* verify_data: "INVALID_CHECKSUM" when it raises, else what it returns
VerifyData(data) ==
    IF data.signature = NoSignature THEN "INVALID_CHECKSUM"
    ELSE LET received_signature_bytes == B64Decode(data.signature)
             verification_data == [event |-> data.event, args |-> data.args]
             expected_signature == HmacDigest(JsonDumps(verification_data))
         IN IF received_signature_bytes = B64Error THEN "False"
            ELSE IF received_signature_bytes = expected_signature
                 THEN "True" ELSE "False"

VARIABLES
    signed_data,   \* history: the mapping the signer was given
    payload,       \* the payload on its way to verify_data
    verdict        \* what verify_data made of it

sig_vars == <<signed_data, payload, verdict>>

NoPayload == [event |-> "none", args |-> 0, signature |-> NoSignature,
              algorithm |-> "none"]

SignatureInit ==
    /\ signed_data = [event |-> "none", args |-> 0]
    /\ payload = NoPayload
    /\ verdict = "none"

\* the sender signs a message
SenderConstructs(data) ==
    /\ payload = NoPayload
    /\ signed_data' = data
    /\ payload' = ConstructPayload(data)
    /\ UNCHANGED verdict

\* somebody on the way changes a field value
TamperField(data) ==
    /\ payload # NoPayload
    /\ verdict = "none"
    /\ payload' = [payload EXCEPT !.event = data.event, !.args = data.args]
    /\ UNCHANGED <<signed_data, verdict>>

\* somebody on the way changes or removes the signature
TamperSignature(sig) ==
    /\ payload # NoPayload
    /\ verdict = "none"
    /\ payload' = [payload EXCEPT !.signature = sig]
    /\ UNCHANGED <<signed_data, verdict>>

\* the receiver verifies
ReceiverVerifies ==
    /\ payload # NoPayload
    /\ verdict = "none"
    /\ verdict' = VerifyData(payload)
    /\ UNCHANGED <<signed_data, payload>>

\* the signature strings somebody can write
RECURSIVE StringsUpTo(_)
StringsUpTo(n) ==
    IF n = 0 THEN {<<>>}
    ELSE LET shorter == StringsUpTo(n - 1)
         IN shorter \cup {Append(str, ch) : str \in shorter, ch \in B64Chars}

(***************************************************************************)
(* Inbound TCP frames that the codec does not turn into a TaskMessage.     *)
(***************************************************************************)
\* what deserialize_message raises on a frame it cannot decode
DecodeFailures == {"InvalidChecksum", "InvalidFrame"}
\* a frame that decodes to something that is not a TaskMessage
NotTaskMessage == "not_task_message"

VARIABLES
    last_decode,   \* history: connection and outcome of the last such frame
    ndecode        \* history: number of such frames

dec_vars == <<last_decode, ndecode>>

DecodeInit ==
    /\ last_decode = <<"none", "none">>
    /\ ndecode = 0

\* a handler that stays in its loop whatever was raised
HandlerKeepsOpen(raised) == FALSE

\* _handle_client: the except clauses that leave the receive loop; the
\* read timeout alone keeps the connection
HandlerBreaks(raised) == raised # "socket.timeout"

(***************************************************************************)
(* TaskExecutorServicer.ExecuteStream.                                     *)
(***************************************************************************)
\* what event_instance() does in the worker: it returns a result without
\* error, returns a result with error, or raises
Outcomes == {"success", "error_result", "raised"}
NoOutcome == "none"

VARIABLES
    call_outcome,  \* per gRPC call: what its event does when it runs
    stream         \* per gRPC call: the TaskStatus messages yielded so far

stm_vars == <<call_outcome, stream>>

StreamInit ==
    /\ call_outcome = [n \in TaskNums |-> NoOutcome]
    /\ stream = [n \in TaskNums |-> <<>>]

\* execute_task_wrapper: the "status" of the dict it returns; a raising
\* event gives the dict of create_error_response
ResultStatus(outcome) == IF outcome = "success" THEN "success" ELSE "error"

\* _process_execution: the "status" of the dict it returns to call n, which
\* is the dict found in the result container, the timeout dict, or the dict
\* built from the exception handle_task raised
ProcessExecutionStatus(n) ==
    CASE waiter[n].state = "done" -> ResultStatus(call_outcome[waiter[n].data])
      [] waiter[n].state = "timeout" -> "failed"
      [] OTHER -> "error"

\* ExecuteStream: map the string status to the TaskStatus enum
StatusEnum(status_str) ==
    IF status_str = "success" THEN "COMPLETED"
    ELSE IF status_str = "error" \/ status_str = "failed" THEN "FAILED"
    ELSE "PENDING"

\* ExecuteStream called for event ev with task_id c: _process_execution up
\* to the wait
ExecuteStreamCall(ev, c, outcome) ==
    /\ GrpcSubmit(ev, c)
    /\ call_outcome' = [call_outcome EXCEPT ![nsub + 1] = outcome]
    /\ UNCHANGED stream

\* ExecuteStream after _process_execution returned: the single yield, after
\* which the generator ends
ExecuteStreamYield(n) ==
    /\ waiter[n].state \in {"done", "timeout", "error"}
    /\ stream[n] = <<>>
    /\ stream' = [stream EXCEPT
                    ![n] = Append(@, StatusEnum(ProcessExecutionStatus(n)))]
    /\ UNCHANGED call_outcome

StreamIdle == UNCHANGED stm_vars

(***************************************************************************)
(* How often each task was handed to a worker pool.                        *)
(***************************************************************************)
VARIABLES
    mgr_submits,   \* history: executor.submit calls of the manager per TaskNode
    pool_submits,  \* history: executor.submit calls of the pool per proxy
    cycle_batch,   \* history: batch_size of the submission loop's cycle
    cycle_taken    \* history: proxies the cycle has taken off _pending_tasks

once_vars == <<mgr_submits, pool_submits, cycle_batch, cycle_taken>>

OnceInit ==
    /\ mgr_submits = [n \in TaskNums |-> 0]
    /\ pool_submits = [f \in Futures |-> 0]
    /\ cycle_batch = 0
    /\ cycle_taken = 0

OnceIdle == UNCHANGED once_vars

(***************************************************************************)
(* Shutdown: BaseManager.shutdown, RemoteTaskManager.shutdown and the      *)
(* manager's event-loop thread.                                            *)
(***************************************************************************)
VARIABLES
    shutdown_event,   \* BaseManager._shutdown_event is set
    rtm_shutdown,     \* RemoteTaskManager._shutdown
    sd_pc,            \* position of the thread inside shutdown()
    sd_calls,         \* shutdown() calls made
    main_pc,          \* _main_async_loop: "sleep" or "stopped"
    sub_pc,           \* _task_submission_loop_async: "check", "get", "stopped"
    router_task,      \* _response_router_loop_async: "running" or "stopped"
    cleanup_task,     \* _registry_cleanup_loop_async: "running" or "stopped"
    mgr_executor      \* BaseManager.executor: "live" or "shutdown"

sd_vars == <<shutdown_event, rtm_shutdown, sd_pc, sd_calls, main_pc, sub_pc,
             router_task, cleanup_task, mgr_executor>>

\* __init__ of BaseManager and RemoteTaskManager, then start()
ShutdownInit ==
    /\ shutdown_event = FALSE
    /\ rtm_shutdown = FALSE
    /\ sd_pc = "none"
    /\ sd_calls = 0
    /\ main_pc = "sleep"
    /\ sub_pc = "check"
    /\ router_task = "running"
    /\ cleanup_task = "running"
    /\ mgr_executor = "live"

ShutdownIdle == UNCHANGED sd_vars

\* the components that the manager, engine and pool specifications leave as
\* constructed
aux_vars == <<evr_vars, sto_vars, sig_vars, dec_vars, stm_vars, once_vars,
             sd_vars>>

AuxInit ==
    /\ RegistryInit
    /\ StampInit
    /\ SignatureInit
    /\ DecodeInit
    /\ StreamInit
    /\ OnceInit
    /\ ShutdownInit

vars == <<mgr_vars, ing_vars, eng_vars, pool_vars, obs_vars, can_vars,
          aux_vars>>

(***************************************************************************)
(* Specifications.  Each one runs one component; the others stay as        *)
(* constructed.                                                            *)
(***************************************************************************)
ManagerIdle == UNCHANGED <<mgr_vars, ing_vars>>
IngressIdle == UNCHANGED ing_vars
EngineIdle == UNCHANGED <<eng_vars, obs_vars>>
ObsIdle == UNCHANGED obs_vars
PoolIdle == UNCHANGED <<pool_vars, can_vars>>
CancelIdle == UNCHANGED can_vars
AuxIdle == UNCHANGED aux_vars
RegistryIdle == UNCHANGED evr_vars
StampIdle == UNCHANGED sto_vars
SignatureIdle == UNCHANGED sig_vars
DecodeIdle == UNCHANGED dec_vars
ComponentsIdle == ManagerIdle /\ EngineIdle /\ PoolIdle

Init ==
    /\ MgrInit
    /\ IngInitWith(AllowedEvents)
    /\ EngInitWith(DefaultConfig)
    /\ ObsInit
    /\ PoolInitWith(DefaultConfig)
    /\ CancelInit
    /\ AuxInit

\* the event every client of the routing specifications submits
EchoEvent == "echo"

TcpIngress ==
    \/ \E s \in Sockets, c \in Ids : TcpSubmit(s, EchoEvent, c)
    \/ \E s \in Sockets : TcpSubmitMinted(s, EchoEvent)

GrpcIngress ==
    \/ \E c \in Ids : GrpcSubmit(EchoEvent, c)
    \/ GrpcSubmitMinted(EchoEvent)

Workers ==
    \/ SubmissionLoop
    \/ \E n \in TaskNums : OnTaskComplete(n)

Router ==
    \/ RouteGet
    \/ RouteParkMissing
    \/ RouteDispatch
    \/ RouteRemove

GrpcWait ==
    \/ \E n \in TaskNums : GrpcWaitDone(n)
    \/ \E n \in TaskNums : GrpcWaitTimeout(n)

Poll ==
    \/ \E c \in Ids : PollStore(c)
    \/ PollRegistry

Cleanup ==
    \/ ClockTick
    \/ RegistryCleanupLoop

\* the manager serving both protocols
Next ==
    \/ (TcpIngress) /\ IngressIdle /\ EngineIdle /\ PoolIdle /\ AuxIdle
    \/ (GrpcIngress) /\ IngressIdle /\ EngineIdle /\ PoolIdle /\ AuxIdle
    \/ (Workers) /\ IngressIdle /\ EngineIdle /\ PoolIdle /\ AuxIdle
    \/ (Router) /\ IngressIdle /\ EngineIdle /\ PoolIdle /\ AuxIdle
    \/ (GrpcWait) /\ IngressIdle /\ EngineIdle /\ PoolIdle /\ AuxIdle
    \/ (\E s \in Sockets : Disconnect(s)) /\ IngressIdle /\ EngineIdle /\ PoolIdle /\ AuxIdle
    \/ (Cleanup) /\ IngressIdle /\ EngineIdle /\ PoolIdle /\ AuxIdle

Spec == Init /\ [][Next]_vars

\* RemoteTaskManager: TCP submissions and POLLs
NextTcp ==
    \/ (TcpIngress) /\ IngressIdle /\ EngineIdle /\ PoolIdle /\ AuxIdle
    \/ (Workers) /\ IngressIdle /\ EngineIdle /\ PoolIdle /\ AuxIdle
    \/ (Router) /\ IngressIdle /\ EngineIdle /\ PoolIdle /\ AuxIdle
    \/ (Poll) /\ IngressIdle /\ EngineIdle /\ PoolIdle /\ AuxIdle
    \/ (\E s \in Sockets : Disconnect(s)) /\ IngressIdle /\ EngineIdle /\ PoolIdle /\ AuxIdle
    \/ (Cleanup) /\ IngressIdle /\ EngineIdle /\ PoolIdle /\ AuxIdle

SpecTcp == Init /\ [][NextTcp]_vars

\* GRPCManager: gRPC calls
NextGrpc ==
    \/ (GrpcIngress) /\ IngressIdle /\ EngineIdle /\ PoolIdle /\ AuxIdle
    \/ (Workers) /\ IngressIdle /\ EngineIdle /\ PoolIdle /\ AuxIdle
    \/ (Router) /\ IngressIdle /\ EngineIdle /\ PoolIdle /\ AuxIdle
    \/ (GrpcWait) /\ IngressIdle /\ EngineIdle /\ PoolIdle /\ AuxIdle
    \/ (Cleanup) /\ IngressIdle /\ EngineIdle /\ PoolIdle /\ AuxIdle

SpecGrpc == Init /\ [][NextGrpc]_vars

\* GRPCManager serving ExecuteStream calls
StreamAlone ==
    /\ IngressIdle /\ EngineIdle /\ PoolIdle
    /\ RegistryIdle /\ StampIdle /\ SignatureIdle /\ DecodeIdle /\ OnceIdle /\ ShutdownIdle

NextStream ==
    \/ (\E c \in RegistryIds, outcome \in Outcomes : ExecuteStreamCall(EchoEvent, c, outcome))
          /\ StreamAlone
    \/ (Workers) /\ StreamAlone /\ StreamIdle
    \/ (Router) /\ StreamAlone /\ StreamIdle
    \/ (GrpcWait) /\ StreamAlone /\ StreamIdle
    \/ (\E n \in TaskNums : ExecuteStreamYield(n))
          /\ UNCHANGED mgr_vars /\ StreamAlone

SpecStream == Init /\ [][NextStream]_vars

\* the manager with worker futures that may fail
FailingWorkers ==
    \/ SubmissionLoop
    \/ \E n \in TaskNums : OnTaskComplete(n)
    \/ \E n \in TaskNums : OnTaskFutureFailed(n)

NextWorkers ==
    \/ (TcpIngress) /\ IngressIdle /\ EngineIdle /\ PoolIdle /\ AuxIdle
    \/ (GrpcIngress) /\ IngressIdle /\ EngineIdle /\ PoolIdle /\ AuxIdle
    \/ (FailingWorkers) /\ IngressIdle /\ EngineIdle /\ PoolIdle /\ AuxIdle
    \/ (Router) /\ IngressIdle /\ EngineIdle /\ PoolIdle /\ AuxIdle

SpecWorkers == Init /\ [][NextWorkers]_vars

\* handle_task alone: calls over both protocols with every event name and
\* every correlation id, with and without an allowlist, next to the
\* submission loop
MaxCalls == 3
IngressSockets == {"s1", "s2", "s3"}

InitIngress ==
    /\ MgrInitWith(IngressSockets)
    /\ \E allowed \in {{}, AllowedEvents} : IngInitWith(allowed)
    /\ EngInitWith(DefaultConfig)
    /\ ObsInit
    /\ PoolInitWith(DefaultConfig)
    /\ CancelInit
    /\ AuxInit

\* history of a handle_task call for event ev
CallOf(ev) ==
    /\ ncalls < MaxCalls
    /\ ncalls' = ncalls + 1
    /\ last_event' = ev
    /\ UNCHANGED allowed_events

\* _handle_client: handle_task, and the error frame when it raised
TcpCall ==
    \E s \in IngressSockets, ev \in Events :
        /\ CallOf(ev)
        /\ \/ \E c \in RegistryIds : TcpSubmit(s, ev, c)
           \/ TcpSubmitMinted(s, ev)
        /\ last_frame' = IF last_outcome' # "OK"
                         THEN ErrorFrame(last_outcome') ELSE NoFrame

GrpcCall ==
    \E ev \in Events :
        /\ CallOf(ev)
        /\ \/ \E c \in RegistryIds : GrpcSubmit(ev, c)
           \/ GrpcSubmitMinted(ev)
        /\ last_frame' = NoFrame

\* bound on the undecodable frames of a behaviour
MaxDecodes == 1

\* _handle_client receives a frame on connection s that deserialize_message
\* rejects (it raises) or that is no TaskMessage (warning, next frame)
TcpUndecodable(s, outcome) ==
    /\ s \in sock_open
    /\ ndecode < MaxDecodes
    /\ ndecode' = ndecode + 1
    /\ last_decode' = <<s, outcome>>
    /\ IF outcome \in DecodeFailures
       THEN /\ last_frame' = ErrorFrame(outcome)
            /\ sock_open' = IF HandlerBreaks(outcome)
                            THEN sock_open \ {s} ELSE sock_open
       ELSE /\ last_frame' = NoFrame
            /\ UNCHANGED sock_open
    /\ UNCHANGED <<allowed_events, last_event, ncalls>>
    /\ UNCHANGED <<registry, results, task_queue, running, response_queue,
                   rpc, rres, rinfo, waiter, ppc, pcid, poll_reply, now, nsub,
                   tasks, last_outcome, delivered, parked, routed, poll_count,
                   fresh, orphaned>>

NextIngress ==
    \/ TcpCall /\ EngineIdle /\ PoolIdle /\ AuxIdle
    \/ GrpcCall /\ EngineIdle /\ PoolIdle /\ AuxIdle
    \/ SubmissionLoop /\ IngressIdle /\ EngineIdle /\ PoolIdle /\ AuxIdle
    \/ (\E s \in IngressSockets,
            outcome \in DecodeFailures \cup {NotTaskMessage} :
                TcpUndecodable(s, outcome))
          /\ EngineIdle /\ PoolIdle /\ RegistryIdle /\ StampIdle
          /\ SignatureIdle /\ StreamIdle /\ OnceIdle /\ ShutdownIdle

SpecIngress == InitIngress /\ [][NextIngress]_vars

\* AdaptiveScalingEngine alone: the monitor thread without a callback, and
\* other threads calling set_target_worker_count and update_queue_length
InitEngine ==
    /\ MgrInit
    /\ IngInitWith(AllowedEvents)
    /\ \E cfg \in Configs : EngInitWith(cfg) /\ PoolInitWith(cfg)
    /\ CancelInit
    /\ AuxInit
    /\ ObsInit

MonitorDecide ==
    \/ MonitorGetMetrics
    \/ \E cpu \in CpuReadings, mem \in MemoryReadings :
          MonitorShouldScaleUp(cpu, mem)
    \/ \E cpu \in CpuReadings : MonitorShouldScaleDown(cpu)
    \/ MonitorApply

\* The same steps, remembering what system_monitor reported
MonitorObserved ==
    \/ MonitorGetMetrics /\ ObsIdle
    \/ \E cpu \in CpuReadings, mem \in MemoryReadings :
          /\ MonitorShouldScaleUp(cpu, mem)
          /\ m_cpu' = cpu
          /\ m_mem' = mem
    \/ \E cpu \in CpuReadings :
          /\ MonitorShouldScaleDown(cpu)
          /\ m_cpu' = cpu
          /\ UNCHANGED m_mem
    \/ MonitorApply /\ ObsIdle

NextEngine ==
    \/ MonitorObserved /\ ManagerIdle /\ PoolIdle /\ AuxIdle
    \/ MonitorNoCallback /\ ManagerIdle /\ ObsIdle /\ PoolIdle /\ AuxIdle
    \/ (\E k \in 0..MaxTargetArg : SetTargetWorkerCount(k))
          /\ ManagerIdle /\ ObsIdle /\ PoolIdle /\ AuxIdle
    \/ (\E k \in 0..MaxQueueLen : UpdateQueueLength(k))
          /\ ManagerIdle /\ ObsIdle /\ PoolIdle /\ AuxIdle
    \/ TimePasses /\ ManagerIdle /\ ObsIdle /\ PoolIdle /\ AuxIdle

SpecEngine == InitEngine /\ [][NextEngine]_vars

\* calculate_optimal_batch_size over the configurations, targets and queue
\* lengths an engine can hold: other threads set the target and the queue
\* length, the submission thread runs its cycle on an empty pending queue
MaxMultiplier == 3
MaxBatchQueue == 6

BatchConfigs ==
    [min_workers : {0, 1}, max_cpu_quota : {30}, max_memory_quota : {20},
     parallelism_multiplier : 1..MaxMultiplier]

InitBatch ==
    /\ MgrInit
    /\ IngInitWith(AllowedEvents)
    /\ \E cfg \in BatchConfigs : EngInitWith(cfg) /\ PoolInitWith(cfg)
    /\ CancelInit
    /\ AuxInit
    /\ ObsInit

NextBatch ==
    \/ (\E k \in 0..MaxTargetArg : SetTargetWorkerCount(k))
          /\ ManagerIdle /\ ObsIdle /\ PoolIdle /\ AuxIdle
    \/ (\E k \in 0..MaxBatchQueue : UpdateQueueLength(k))
          /\ ManagerIdle /\ ObsIdle /\ PoolIdle /\ AuxIdle
    \/ LoopBegin /\ ManagerIdle /\ ObsIdle /\ CancelIdle /\ AuxIdle
    \/ LoopGet /\ ManagerIdle /\ ObsIdle /\ CancelIdle /\ AuxIdle
    \/ LoopPublish /\ ManagerIdle /\ ObsIdle /\ CancelIdle /\ AuxIdle

SpecBatch == InitBatch /\ [][NextBatch]_vars

\* The manager serving TCP clients whose results nobody polls: ingress,
\* workers, router, clients leaving, the clock and the cleanup loop.  The
\* loops started by BaseManager.start and the pool workers keep running.
SweepIngress ==
    \/ \E s \in Sockets, c \in RegistryIds : TcpSubmit(s, EchoEvent, c)
    \/ \E s \in Sockets : TcpSubmitMinted(s, EchoEvent)

SweepStep(A) ==
    A /\ IngressIdle /\ EngineIdle /\ PoolIdle /\ RegistryIdle /\ SignatureIdle
      /\ DecodeIdle /\ StreamIdle /\ OnceIdle /\ ShutdownIdle
      /\ StampStore

NextSweep ==
    \/ SweepStep(SweepIngress)
    \/ SweepStep(Workers)
    \/ SweepStep(Router)
    \/ SweepStep(\E s \in Sockets : Disconnect(s))
    \/ SweepStep(ClockTick)
    \/ SweepStep(RegistryCleanupLoop)

FairSpecSweep ==
    /\ Init
    /\ [][NextSweep]_vars
    /\ WF_vars(SweepStep(Workers))
    /\ WF_vars(SweepStep(Router))
    /\ WF_vars(SweepStep(ClockTick))
    /\ WF_vars(SweepStep(RegistryCleanupLoop))

\* A sender signing a message, somebody in between changing it, and the
\* receiver verifying what arrives
SignatureAlone ==
    ComponentsIdle /\ RegistryIdle /\ StampIdle /\ DecodeIdle /\ StreamIdle /\ OnceIdle /\ ShutdownIdle

NextSignature ==
    \/ (\E data \in SignedMessages : SenderConstructs(data)) /\ SignatureAlone
    \/ (\E data \in SignedMessages : TamperField(data)) /\ SignatureAlone
    \/ (\E sig \in StringsUpTo(MaxSignatureLen) \cup {NoSignature} :
            TamperSignature(sig)) /\ SignatureAlone
    \/ ReceiverVerifies /\ SignatureAlone

SpecSignature == Init /\ [][NextSignature]_vars

\* The event registry alone, with callers registering, looking up and
\* clearing
NextRegistry ==
    \/ (\E k \in Classes, n \in ClassNames \cup {NoName} :
            RegistryRegister(k, n)) /\ ComponentsIdle /\ StampIdle /\ SignatureIdle /\ DecodeIdle
          /\ StreamIdle /\ OnceIdle /\ ShutdownIdle
    \/ (\E m \in Modules, n \in ClassNames : RegistryGetClass(m, n))
          /\ ComponentsIdle /\ StampIdle /\ SignatureIdle /\ DecodeIdle
          /\ StreamIdle /\ OnceIdle /\ ShutdownIdle
    \/ (\E n \in ClassNames : RegistryGetByName(n)) /\ ComponentsIdle /\ StampIdle /\ SignatureIdle /\ DecodeIdle
          /\ StreamIdle /\ OnceIdle /\ ShutdownIdle
    \/ RegistryClear /\ ComponentsIdle /\ StampIdle /\ SignatureIdle /\ DecodeIdle
          /\ StreamIdle /\ OnceIdle /\ ShutdownIdle

SpecRegistry == Init /\ [][NextRegistry]_vars

\* DynamicProcessPoolExecutor: a thread calling submit(), the submission
\* thread, the pool processes and the engine's monitor thread
InitPool ==
    /\ MgrInit
    /\ IngInitWith(AllowedEvents)
    /\ EngInitWith(DefaultConfig)
    /\ ObsInit
    /\ PoolInitWith(DefaultConfig)
    /\ CancelInit
    /\ AuxInit

SubmitStep == (SubmitPut \/ SubmitPublish) /\ ManagerIdle /\ ObsIdle /\ CancelIdle /\ AuxIdle
LoopStep == (LoopBegin \/ LoopGet \/ LoopPublish) /\ ManagerIdle /\ ObsIdle /\ CancelIdle /\ AuxIdle
LoopSubmitStep == LoopSubmit /\ ManagerIdle /\ ObsIdle /\ CancelIdle /\ AuxIdle
WorkerStep == (\E f \in Futures : WorkerDone(f)) /\ ManagerIdle /\ ObsIdle /\ CancelIdle /\ AuxIdle
MonitorStep == MonitorDecide /\ ManagerIdle /\ ObsIdle /\ PoolIdle /\ AuxIdle
CallbackStep == ScalingCallback /\ ManagerIdle /\ ObsIdle /\ CancelIdle /\ AuxIdle
RescaleStep == RescaleCreate /\ ManagerIdle /\ ObsIdle /\ CancelIdle /\ AuxIdle
TimeStep == TimePasses /\ ManagerIdle /\ ObsIdle /\ PoolIdle /\ AuxIdle

NextPool ==
    \/ SubmitStep
    \/ LoopStep
    \/ LoopSubmitStep
    \/ WorkerStep
    \/ MonitorStep
    \/ CallbackStep
    \/ RescaleStep
    \/ TimeStep

\* DynamicProcessPoolExecutor with holders of the returned futures that may
\* cancel them at any moment
CancelStep ==
    (\E f \in Futures : Cancel(f)) /\ ManagerIdle /\ ObsIdle /\ AuxIdle

NextCancel ==
    \/ SubmitStep
    \/ LoopStep
    \/ LoopSubmitStep
    \/ WorkerStep
    \/ CancelStep

SpecCancel == InitPool /\ [][NextCancel]_vars

\* the submission thread and the monitor thread keep running, pool processes
\* finish their tasks, and a thread waiting for _executor_lock gets it
FairSpecPool ==
    /\ InitPool
    /\ [][NextPool]_vars
    /\ WF_vars(LoopStep)
    /\ SF_vars(LoopSubmitStep)
    /\ WF_vars(WorkerStep)
    /\ WF_vars(RescaleStep)

\* The scale-up scenario: an engine whose quotas allow four workers, one
\* submit_batch call of RampTasks tasks, and a system monitor that reports
\* idle resources on every tick
RampTasks == 8

RampConfig ==
    [min_workers |-> 1, max_cpu_quota |-> 4 * CpuPerWorker,
     max_memory_quota |-> 4 * MemoryPerWorker,
     parallelism_multiplier |-> ParallelismMultiplier]

InitRamp ==
    /\ MgrInit
    /\ IngInitWith(AllowedEvents)
    /\ EngInitWith(RampConfig)
    /\ ObsInit
    /\ PoolInitWith(RampConfig)
    /\ CancelInit
    /\ AuxInit

\* submit_batch: wrap every task in a QueuedFuture and put it; the length is
\* published afterwards, once
SubmitBatchPut ==
    /\ spc = "idle"
    /\ nfut = 0
    /\ nfut' = RampTasks
    /\ pending_tasks' = [i \in 1..RampTasks |-> i]
    /\ fstate' = [f \in 1..RampTasks |-> "queued"]
    /\ spc' = "publish"
    /\ UNCHANGED <<executor, executor_lock, current_worker_count, lpc, l_left,
                   l_hand, resized>>
    /\ UNCHANGED eng_vars

\* readings of an idle machine: CPU below the scale-down threshold (and so
\* below the scale-up one), memory below its threshold
IdleCpuReadings == {c \in CpuReadings : CpuUnderutilized(RampConfig, c)}
IdleMemoryReadings == {m \in MemoryReadings : MemoryAvailable(RampConfig, m)}

MonitorIdleMachine ==
    \/ MonitorGetMetrics /\ ObsIdle
    \/ \E cpu \in IdleCpuReadings, mem \in IdleMemoryReadings :
          /\ MonitorShouldScaleUp(cpu, mem)
          /\ m_cpu' = cpu
          /\ m_mem' = mem
    \/ \E cpu \in IdleCpuReadings :
          /\ MonitorShouldScaleDown(cpu)
          /\ m_cpu' = cpu
          /\ UNCHANGED m_mem
    \/ MonitorApply /\ ObsIdle

BatchStep ==
    (SubmitBatchPut \/ SubmitPublish)
        /\ ManagerIdle /\ ObsIdle /\ CancelIdle /\ AuxIdle
IdleMonitorStep == MonitorIdleMachine /\ ManagerIdle /\ PoolIdle /\ AuxIdle

NextRamp ==
    \/ BatchStep
    \/ LoopStep
    \/ LoopSubmitStep
    \/ IdleMonitorStep
    \/ CallbackStep
    \/ RescaleStep
    \/ TimeStep

\* every thread keeps running and the clock advances
FairSpecRamp ==
    /\ InitRamp
    /\ [][NextRamp]_vars
    /\ WF_vars(BatchStep)
    /\ WF_vars(LoopStep)
    /\ SF_vars(LoopSubmitStep)
    /\ WF_vars(IdleMonitorStep)
    /\ SF_vars(CallbackStep)
    /\ WF_vars(RescaleStep)
    /\ WF_vars(TimeStep)

\* The manager's submission loop and the dynamic pool side by side, with
\* every executor.submit call counted
OtherAuxIdle ==
    /\ RegistryIdle /\ StampIdle /\ SignatureIdle /\ DecodeIdle /\ StreamIdle
    /\ ShutdownIdle

CountedSubmissionLoop ==
    /\ SubmissionLoop
    /\ mgr_submits' = [mgr_submits EXCEPT ![Head(task_queue)] = @ + 1]
    /\ UNCHANGED <<pool_submits, cycle_batch, cycle_taken>>
    /\ IngressIdle /\ EngineIdle /\ PoolIdle /\ OtherAuxIdle

CountedLoopSubmit ==
    /\ LoopSubmit
    /\ pool_submits' = IF executor = "live"
                       THEN [pool_submits EXCEPT ![l_hand] = @ + 1]
                       ELSE pool_submits
    /\ UNCHANGED <<mgr_submits, cycle_batch, cycle_taken>>
    /\ ManagerIdle /\ ObsIdle /\ CancelIdle /\ OtherAuxIdle

NextOnce ==
    \/ (\E s \in Sockets : TcpSubmitMinted(s, EchoEvent))
          /\ IngressIdle /\ EngineIdle /\ PoolIdle /\ AuxIdle
    \/ CountedSubmissionLoop
    \/ (\E n \in TaskNums : OnTaskComplete(n))
          /\ IngressIdle /\ EngineIdle /\ PoolIdle /\ AuxIdle
    \/ SubmitStep
    \/ LoopStep
    \/ CountedLoopSubmit
    \/ WorkerStep
    \/ MonitorStep
    \/ CallbackStep
    \/ RescaleStep

SpecOnce == InitPool /\ [][NextOnce]_vars

(***************************************************************************)
(* Properties of the scaling engine and the dynamic pool.                  *)
(***************************************************************************)
\* C4: no submitted task is lost across rescales: every proxy future that
\* submit() put on the pending queue is eventually handed to a pool and
\* reaches its terminal state.
C4_NoTaskLost ==
    \A f \in Futures : (fstate[f] = "queued") ~> (fstate[f] = "done")

\* a future that was still unfinished when a rescale shut its pool down, and
\* that has finished since
C4_Witness ==
    \E f \in resized : fstate[f] = "done"

\* C5: in every reachable state of the engine,
\* min_workers <= target_workers <= max_workers.
C5_TargetWithinBounds ==
    /\ config.min_workers <= target_workers
    /\ target_workers <= max_workers

\* the target has been raised to max_workers, above min_workers, and a
\* monitor iteration has just applied its adjustment
C5_Witness ==
    /\ mpc = "callback"
    /\ last_scale_action = "up"
    /\ target_workers = max_workers
    /\ max_workers > config.min_workers

\* the monitor loop lowers target_workers
MonitorScalesDown ==
    mpc = "apply" /\ mpc' = "callback" /\ target_workers' < target_workers

\* C6: a scale-down step of the monitor loop never happens less than
\* scale_down_timeout after the previous change of target_workers.
C6_ScaleDownAfterTimeout ==
    [][MonitorScalesDown =>
          (last_change_time >= 0 =>
              etime - last_change_time >= ScaleDownTimeout)]_vars

(***************************************************************************)
(* Properties of handle_task.                                              *)
(***************************************************************************)
\* what a handle_task call for event ev reports when its checks are
\* allowlist, event registry, construction, enqueue, the first failure
\* winning
FirstFailingCheck(ev, allowed, q) ==
    IF allowed # {} /\ ev \notin allowed THEN "EVENT_NOT_WHITELISTED"
    ELSE IF ev \notin RegisteredEvents THEN "EVENT_NOT_REGISTERED"
    ELSE IF ev \in CtorRaises THEN "INVALID_ARGS"
    ELSE IF Len(q) >= MaxPendingTasks THEN "QUEUE_FULL"
    ELSE "OK"

\* C11: every handle_task call reports the error of the first failing check
\* in the order allowlist, event-registry lookup, event construction,
\* enqueue: EVENT_NOT_WHITELISTED, else EVENT_NOT_REGISTERED, else
\* INVALID_ARGS, else QUEUE_FULL when the queue is full.
C11_FirstFailingCheckReported ==
    [][ncalls' # ncalls =>
          last_outcome' =
              FirstFailingCheck(last_event', allowed_events, task_queue)]_vars

\* the errors with which handle_task rejects a submission
RejectionKinds ==
    {"EVENT_NOT_REGISTERED", "EVENT_NOT_WHITELISTED", "INVALID_ARGS",
     "QUEUE_FULL"}

\* C14: when handle_task rejects a TCP submission with EVENT_NOT_REGISTERED,
\* EVENT_NOT_WHITELISTED, INVALID_ARGS or QUEUE_FULL, the error frame the
\* client receives carries that rejection kind in its code field.
C14_ErrorFrameCodeIsRejection ==
    [][(ncalls' # ncalls /\ last_frame' # NoFrame
            /\ last_outcome' \in RejectionKinds)
          => last_frame'.code = last_outcome']_vars

\* every accepted task still waits in the ingress queue or blocks in a
\* worker
AllTasksBlocked ==
    \A n \in 1..nsub :
        tasks[n].accepted =>
            \/ \E i \in 1..Len(task_queue) : task_queue[i] = n
            \/ n \in running

\* C15: with an ingress queue of capacity MaxPendingTasks and tasks that
\* block in the worker, of MaxPendingTasks + 1 submissions made back-to-back
\* the first MaxPendingTasks are accepted and the last is rejected with
\* QUEUE_FULL, however handle_task interleaves with the submission loop.
C15_OverflowSubmissionRejected ==
    (nsub = MaxPendingTasks + 1 /\ AllTasksBlocked) =>
        /\ \A n \in 1..MaxPendingTasks : tasks[n].accepted
        /\ ~tasks[MaxPendingTasks + 1].accepted
        /\ last_outcome = "QUEUE_FULL"

(***************************************************************************)
(* Properties of the manager.                                              *)
(***************************************************************************)
\* the results pushed to a client handle
Pushed == {d.result : d \in delivered}

\* C1: for every correlation id, the client task registry and the result
\* store never both hold an entry for it (so when _route_response stores a
\* result, the registry record of its id is already gone).
C1_RegistryStoreDisjoint ==
    \A c \in Ids : ~(registry[c] # NoTask /\ results[c] # 0)

\* C2: every result the router has finished routing was either delivered to
\* the client handle or stored in the result store, never both and never
\* neither.
C2_DeliveredXorParked ==
    \A n \in routed : (n \in Pushed) # (n \in parked)

\* submission n was dequeued by the submission loop and its future is done
FutureDone(n) ==
    /\ n <= nsub
    /\ tasks[n].accepted
    /\ \A i \in 1..Len(task_queue) : task_queue[i] # n
    /\ n \notin running

\* how many terminal results of submission n were put on the response queue
ResultsPut(n) ==
    Cardinality({i \in 1..Len(response_queue) : response_queue[i] = n})
        + (IF rres = n THEN 1 ELSE 0) + (IF n \in routed THEN 1 ELSE 0)

\* C13: for every TaskNode the submission loop dequeued, once its worker
\* future is done exactly one terminal result for it has been put on the
\* response queue, also when the task raised or the future itself failed.
C13_OneResultPerDequeuedTask ==
    \A n \in TaskNums : FutureDone(n) => ResultsPut(n) = 1

\* the protocol-specific delivery to the client of record info raises
DeliveryRaises(info) == info.protocol = "tcp" /\ TcpRaises(info)

\* C12: the router stores a result exactly when no client record exists for
\* its correlation id or the protocol-specific delivery raised; and when a
\* record existed, the registry holds none for the id once _route_response
\* returns.
C12_ParkedIffNoRecordOrDeliveryRaised ==
    /\ [][(rpc = "missing" /\ rpc' = "idle") => rres \in parked']_vars
    /\ [][(rpc = "dispatch" /\ rpc' = "remove") =>
             ((rres \in parked' \/ results'[ResultCid(rres)] = rres)
                 <=> DeliveryRaises(rinfo))]_vars
    /\ [][(rpc = "remove" /\ rpc' = "idle") =>
             GetTask(registry', ResultCid(rres)) = NoTask]_vars

\* the pushes of results carrying correlation id c that went to handle h
PushesTo(c, h) == {d \in delivered : ResultCid(d.result) = c /\ d.handle = h}

\* the handles a registry record can carry
Handles ==
    {[socket |-> s, waiter |-> 0] : s \in Sockets}
        \cup {[socket |-> "none", waiter |-> n] : n \in TaskNums}

\* C3 as claimed: for each correlation id, at most one result frame is ever
\* pushed to a given client handle, re-submissions of the id included.
C3_AtMostOnePushPerId ==
    \A c \in Ids, h \in Handles : Cardinality(PushesTo(c, h)) <= 1

\* C3 as amended: for each correlation id, at most one result is pushed per
\* registry record of the id: the pushes of results for the id never
\* outnumber the handle_task calls that created a record for it.
C3_AtMostOnePushPerRecord ==
    \A c \in Ids :
        Cardinality({d \in delivered : ResultCid(d.result) = c})
            <= Cardinality({n \in fresh : tasks[n].correlation_id = c})

\* C3 witness: an id was submitted twice, the second submission merged into
\* the record of the first, and its one push has happened.
C3_Witness ==
    \E c \in Ids :
        /\ Cardinality({n \in 1..nsub : tasks[n].correlation_id = c}) = 2
        /\ Cardinality({n \in fresh : tasks[n].correlation_id = c}) = 1
        /\ Cardinality({d \in delivered : ResultCid(d.result) = c}) = 1
        /\ Cardinality(routed) = 2

\* C7: the ingress queue never holds more than MaxPendingTasks TaskNodes,
\* and a handle_task call that builds its TaskNode while the queue is full
\* raises QUEUE_FULL at once and enqueues nothing.
C7_QueueBounded ==
    /\ [](Len(task_queue) <= MaxPendingTasks)
    /\ [][(nsub' = nsub + 1 /\ Len(task_queue) >= MaxPendingTasks)
            => (last_outcome' = "QUEUE_FULL" /\ task_queue' = task_queue)]_vars

\* C7 witness: a submission was rejected with QUEUE_FULL on a full queue.
C7_Witness ==
    /\ last_outcome = "QUEUE_FULL"
    /\ Len(task_queue) = MaxPendingTasks
    /\ nsub > MaxPendingTasks

LoneTcpTaskOfGoneClient(n) ==
    /\ n \in orphaned
    /\ \A m \in 1..nsub : m # n => Canon(tasks[m].correlation_id) # ResultCid(n)

\* C9 (safety part): after one POLL has returned the parked result of a task
\* whose TCP client disconnected, no POLL returns it again and every later
\* POLL for its id replies NOT_FOUND.
C9_PollOnceThenNotFound ==
    /\ [](\A n \in TaskNums : LoneTcpTaskOfGoneClient(n) => poll_count[n] <= 1)
    /\ [][\A n \in TaskNums :
            (/\ LoneTcpTaskOfGoneClient(n)
             /\ poll_count[n] = 1
             /\ ppc = "registry" /\ ppc' = "idle"
             /\ pcid = tasks[n].correlation_id)
                => poll_reply'.status = "NOT_FOUND"]_vars

\* the POLL handler's store lookup of id c found nothing
PollStoreMiss(c) == ppc = "idle" /\ ppc' = "registry" /\ pcid' = c

\* the POLL handler's registry lookup replies
PollRegistryStep == ppc = "registry" /\ ppc' = "idle"

\* C10: a POLL for an id that neither the result store nor the registry
\* holds replies NOT_FOUND and changes none of the registry, the result
\* store and the ingress queue (so repeating it gives the same reply and
\* the same state).
C10_PollUnknownNoEffect ==
    [][/\ \A c \in Ids :
            (PollStoreMiss(c) /\ results[c] = 0)
                => UNCHANGED <<registry, results, task_queue>>
       /\ (PollRegistryStep /\ GetTask(registry, pcid) = NoTask)
                => (/\ poll_reply' = [correlation_id |-> pcid,
                                      status |-> "NOT_FOUND", data |-> 0]
                    /\ UNCHANGED <<registry, results, task_queue>>)]_vars

\* C10 witness: a POLL for an unknown id has been answered NOT_FOUND.
C10_Witness ==
    /\ ppc = "idle"
    /\ poll_reply.status = "NOT_FOUND"
    /\ GetTask(registry, poll_reply.correlation_id) = NoTask
    /\ results[poll_reply.correlation_id] = 0

\* C16: should_scale_up answers True exactly when the target is below
\* W_max, the cores in use are below cpu_threshold_scale_up of the CPU quota,
\* the memory in use is below memory_threshold of the memory quota, and the
\* queue length is at least scale_up_threshold times the target.
C16_ScaleUpIffFourConditions ==
    [][(mpc = "should_up" /\ mpc' = "should_down") =>
        (m_up' <=>
            /\ target_workers < max_workers
            /\ m_cpu' * 100 < CpuThresholdScaleUp * config.max_cpu_quota
            /\ m_mem' * 100 < MemoryThreshold * config.max_memory_quota
            /\ task_queue_length * 100 >= ScaleUpThreshold * target_workers)]_vars

\* should_scale_up has answered True
C16_Witness ==
    /\ mpc = "should_down"
    /\ m_up
    /\ target_workers < max_workers

\* C17: should_scale_down answers True exactly when the target is above
\* min_workers, the queue is empty, the cores in use are below
\* cpu_threshold_scale_down of the CPU quota, and at least scale_down_timeout
\* has passed since the last scale action.
C17_ScaleDownIffFourConditions ==
    [][(mpc = "should_down" /\ mpc' = "apply") =>
        (m_down' <=>
            /\ target_workers > config.min_workers
            /\ task_queue_length = 0
            /\ m_cpu' * 100 < CpuThresholdScaleDown * config.max_cpu_quota
            /\ etime - last_scale_action_time >= ScaleDownTimeout)]_vars

\* should_scale_down has answered True
C17_Witness ==
    /\ mpc = "apply"
    /\ m_down
    /\ target_workers > config.min_workers

TwiceScale(target, qlen) ==
    IF qlen < target THEN 3 ELSE IF qlen > 5 * target THEN 1 ELSE 2

\* twice max(min_workers, s * parallelism_multiplier * target_workers)
TwiceScaledProduct ==
    Max(2 * config.min_workers,
        TwiceScale(target_workers, task_queue_length)
            * config.parallelism_multiplier * target_workers)

\* C19 as stated: calculate_optimal_batch_size returns exactly
\* max(min_workers, s * parallelism_multiplier * target_workers), s being
\* 1.5, 0.5 or 1 by the queue length (both sides doubled).
C19_BatchSizeIsScaledProduct ==
    [][(lpc = "idle" /\ lpc' = "get") => 2 * l_left' = TwiceScaledProduct]_vars

\* C19 amended: calculate_optimal_batch_size returns the whole part of
\* max(min_workers, s * parallelism_multiplier * target_workers): the largest
\* integer that does not exceed it.
C19_BatchSizeIsWholePartOfScaledProduct ==
    [][(lpc = "idle" /\ lpc' = "get") =>
        /\ 2 * l_left' <= TwiceScaledProduct
        /\ TwiceScaledProduct < 2 * (l_left' + 1)]_vars

\* a batch size computed from an odd product scaled by 1.5
C19_Witness ==
    /\ lpc = "get"
    /\ config.parallelism_multiplier = 1
    /\ config.min_workers = 0
    /\ target_workers = 1
    /\ task_queue_length = 0
    /\ l_left = 1

\* C20 as stated: the function of a proxy future that was cancelled while it
\* waited in the pending queue is never submitted to the real pool, and the
\* proxy stays cancelled.
C20_CancelledWhilePendingNeverSubmitted ==
    \A f \in cancelled_in_queue :
        /\ fstate[f] \notin {"submitted", "done", "real_cancelled"}
        /\ proxy_state[f] = "CANCELLED"

\* the registry call of this step, if the step is one
IsRegisterCall(k, n) ==
    reg_calls' = reg_calls + 1 /\ reg_call' = <<"register", k, n>>

\* C21: register(class, name) under a name already mapped to a different
\* class fails with a conflict error and leaves the name-to-class mapping
\* unchanged; registering the class the name already maps to succeeds with a
\* warning and leaves the mapping unchanged.
C21_NameCollisionRejected ==
    [][\A k \in Classes, n \in ClassNames \cup {NoName} :
         IsRegisterCall(k, n) =>
            LET mapped == name_registry[RegisteredName(k, n)]
            IN /\ mapped \notin {NoClass, k} =>
                     /\ reg_outcome' = "RuntimeError"
                     /\ name_registry' = name_registry
               /\ mapped = k =>
                     /\ reg_outcome' = "warned"
                     /\ name_registry' = name_registry]_vars

\* C22 as stated: once ready, the registry stays ready whatever is called.
C22_ReadyForever ==
    [][ready => ready']_vars

\* C22 amended: a successful register() leaves the registry ready, and a
\* ready registry stays ready through every call except clear(), which
\* makes it not ready again.
C22_ReadyUntilClear ==
    [][/\ (reg_calls' = reg_calls + 1 /\ reg_call'[1] = "register"
             /\ reg_outcome' \in {"ok", "warned"}) => ready'
       /\ (ready /\ reg_calls' = reg_calls + 1 /\ reg_call'[1] # "clear")
             => ready'
       /\ (reg_calls' = reg_calls + 1 /\ reg_call'[1] = "clear") => ~ready']_vars

\* a registry made ready by a register() is still ready after later calls,
\* the last of them a lookup
C22_Witness ==
    /\ ready
    /\ reg_calls = MaxRegistryCalls
    /\ reg_call[1] = "get_by_name"
    /\ reg_outcome = "found"

\* a registry record that the model's clock can still outlive
Sweepable(c) ==
    /\ registry[c] # NoTask
    /\ registry[c].created_at < MaxClock - TaskRegistryTTL

\* a parked result older than the result TTL
StaleResult(c) == results[c] # 0 /\ now - stored_at[c] > TaskResultTTL

\* a registry record older than the registry TTL
ExpiredRecord(c) ==
    registry[c] # NoTask /\ now - registry[c].created_at > TaskRegistryTTL

\* C23: the cleanup loop sweeps the registry and the result store: a parked
\* result older than its TTL that nobody polls does not stay in the result
\* store for ever, and a registry entry older than its TTL does not stay in
\* the registry for ever (each is removed, or stored again with a new time).
C23_StoreAndRegistrySwept ==
    /\ \A c \in Ids : StaleResult(c) ~> ~StaleResult(c)
    /\ \A c \in RegistryIds : ExpiredRecord(c) ~> ~ExpiredRecord(c)

\* C30: every client task record created by handle_task is eventually
\* removed from the registry (or re-registered, which restarts its TTL), by
\* the routing of its result or by the TTL sweep, also when handle_task
\* rejected the submission after registering it.
C30_RecordEventuallyRemoved ==
    \A c \in RegistryIds : Sweepable(c) ~> ~Sweepable(c)

\* the record of a submission that handle_task rejected has been removed
C30_Witness ==
    /\ \E n \in 1..nsub :
          /\ ~tasks[n].accepted
          /\ tasks[n].correlation_id \in MalformedIds
          /\ registry[tasks[n].correlation_id] = NoTask
    /\ now > 0

\* C24: verify_data accepts the payload the signer built, and accepts a
\* payload only if its _signature is the very signature the signer produces
\* for its fields: a payload with a changed field value under the old
\* signature, or with a changed signature over the old fields, is not
\* accepted.
C24_AcceptsExactlyWhatWasSigned ==
    verdict # "none" =>
        /\ payload = ConstructPayload(signed_data) => verdict = "True"
        /\ verdict = "True" =>
              payload.signature =
                  GenerateSignature([event |-> payload.event,
                                     args |-> payload.args])

\* C25: when decoding an inbound TCP frame fails, the server sends an error
\* frame, closes that connection, and neither registers a client task nor
\* enqueues one.
C25_DecodeFailureClosesConnection ==
    [][\A s \in IngressSockets, failure \in DecodeFailures :
         (ndecode' = ndecode + 1 /\ last_decode' = <<s, failure>>) =>
            /\ last_frame'.status = "error"
            /\ s \notin sock_open'
            /\ registry' = registry
            /\ task_queue' = task_queue
            /\ nsub' = nsub]_vars

\* a frame with a bad signature arrived on a connection that had a task
\* registered and queued, and the connection is closed
C25_Witness ==
    /\ last_decode[2] = "InvalidChecksum"
    /\ last_decode[1] \notin sock_open
    /\ last_frame = ErrorFrame("InvalidChecksum")
    /\ task_queue # <<>>
    /\ \E c \in RegistryIds :
          registry[c] # NoTask /\ registry[c].client_context.socket = last_decode[1]

\* a step of the POLL branch: the store lookup (hit or miss) or the
\* registry lookup
PollBranchStep ==
    \/ ppc' # ppc
    \/ poll_count' # poll_count

\* C26: a POLL frame with args.task_id is never registered in the client
\* task registry nor put on the ingress queue, and when the result store
\* held no result for the id the reply is PENDING if the registry tracks the
\* id and NOT_FOUND otherwise.
C26_PollIsNotATask ==
    [][/\ PollBranchStep =>
            /\ registry' = registry
            /\ task_queue' = task_queue
            /\ nsub' = nsub
       /\ PollRegistryStep =>
            /\ poll_reply'.correlation_id = pcid
            /\ poll_reply'.data = 0
            /\ registry[pcid] # NoTask => poll_reply'.status = "PENDING"
            /\ registry[pcid] = NoTask => poll_reply'.status = "NOT_FOUND"]_vars

\* a POLL for a task still in the registry, with nothing parked, has been
\* answered PENDING
C26_Witness ==
    /\ ppc = "idle"
    /\ poll_reply.status = "PENDING"
    /\ registry[poll_reply.correlation_id] # NoTask
    /\ results[poll_reply.correlation_id] = 0
    /\ task_queue # <<>>

\* C27: every ExecuteStream call yields exactly one TaskStatus message
\* and then ends, whatever the outcome (success, task error, rejection by
\* handle_task, timeout); when the event raises, that single message has
\* state FAILED.
C27_OneStatusFailedWhenRaised ==
    \A n \in TaskNums :
        /\ Len(stream[n]) <= 1
        /\ (Len(stream[n]) = 1 /\ call_outcome[n] = "raised")
                => stream[n][1] = "FAILED"

\* the pending queue has drained, the engine knows it, and
\* scale_down_timeout has elapsed since the last change of the target
DrainedAndTimedOut ==
    /\ nfut = RampTasks
    /\ pending_tasks = <<>>
    /\ task_queue_length = 0
    /\ spc = "idle"
    /\ etime - last_scale_action_time >= ScaleDownTimeout

\* C28: with min_workers = 1, W_max = 4 and idle resources, submitting the
\* batch of tasks at once makes target_workers rise, one per tick, until it
\* reaches 4; and whenever the pending queue has drained and
\* scale_down_timeout has elapsed while target_workers is above 1, the
\* target is lowered (which restarts the timeout), so it returns to 1.
C28_RampUpThenBackDown ==
    /\ (nfut = RampTasks) ~> (target_workers = max_workers)
    /\ [][target_workers' > target_workers
            => target_workers' = target_workers + 1]_vars
    /\ (DrainedAndTimedOut /\ target_workers > config.min_workers)
          ~> (~DrainedAndTimedOut \/ target_workers = config.min_workers)

\* C29: at-most-once execution: the manager's submission loop hands each
\* TaskNode it dequeued to the executor once and never again, and the
\* dynamic pool submits each proxy future to at most one real pool, whatever
\* the interleaving with resizes.
C29_AtMostOnceExecution ==
    /\ \A n \in TaskNums :
          /\ mgr_submits[n] <= 1
          /\ n \in running => mgr_submits[n] = 1
          /\ mgr_submits[n] = 1 =>
                \A i \in 1..Len(task_queue) : task_queue[i] # n
    /\ \A f \in Futures :
          /\ pool_submits[f] <= 1
          /\ fstate[f] \in {"submitted", "done"} => pool_submits[f] = 1
          /\ pool_submits[f] = 1 =>
                \A i \in 1..Len(pending_tasks) : pending_tasks[i] # f

\* the manager has submitted a TaskNode, and the pool has submitted a proxy
\* that finished although a resize shut its pool down before it was done
C29_Witness ==
    /\ \E n \in TaskNums : mgr_submits[n] = 1
    /\ \E f \in Futures :
          /\ pool_submits[f] = 1
          /\ f \in resized
          /\ fstate[f] = "done"
    /\ current_worker_count > config.min_workers

\* the POLL handler's get(c) returned the stored result
PollStoreHit(c) ==
    /\ ppc = "idle"
    /\ ppc' = "idle"
    /\ poll_count' # poll_count
    /\ poll_reply'.correlation_id = c

\* C32: ResultStore.get is pop-on-read: a get(id) that finds an entry returns
\* what store(id, r) put there and removes it, a get(id) that finds none
\* returns None and changes nothing (so every get after the first returns
\* None until the next store), and get on one id never changes the entry of
\* another id.
C32_GetIsPopOnRead ==
    [][\A c \in Ids :
         /\ PollStoreHit(c) =>
               /\ results[c] # 0
               /\ poll_reply'.status = "RESULT"
               /\ poll_reply'.data = results[c]
               /\ results'[c] = 0
               /\ \A d \in Ids \ {c} : results'[d] = results[d]
         /\ PollStoreMiss(c) =>
               /\ results[c] = 0
               /\ results' = results]_vars

\* a result was stored, the first get returned it, and the next get of the
\* same id found nothing
C32_Witness ==
    /\ \E n \in TaskNums : poll_count[n] = 1 /\ n \in parked
    /\ ppc = "registry"
    /\ poll_reply.status = "RESULT"
    /\ pcid = poll_reply.correlation_id
    /\ results[pcid] = 0

\* the submission thread leaves its "with self._executor_lock" block
LoopSubmitReturns == lpc = "submit" /\ lpc' # "submit"

\* C38: the submission loop never submits a task to a pool that
\* _rescale_executor has already shut down: the pool is shut down only while
\* the rescaling thread holds the executor lock, every executor.submit of the
\* loop finds the live pool, and no proxy future is lost to a dead pool.
C38_SubmitOnlyToLivePool ==
    /\ [](executor = "shutdown" => executor_lock = "rescale")
    /\ [](\A f \in Futures : fstate[f] # "lost")
    /\ [][LoopSubmitReturns =>
            /\ executor = "live"
            /\ executor_lock = "none"
            /\ fstate'[l_hand] = "submitted"]_vars

\* the submission thread holds a proxy it took from the queue and waits for
\* the executor lock while _rescale_executor has shut the old pool down
C38_Witness ==
    /\ lpc = "submit"
    /\ l_hand # 0
    /\ executor = "shutdown"
    /\ executor_lock = "rescale"

\* a handle_task call that raised
HandleTaskFailed == ncalls' # ncalls /\ last_outcome' # "OK"

\* C34: whenever handle_task raises (not whitelisted, not registered,
\* invalid args, queue full, or a correlation id that is no UUID), the client
\* task registry and the ingress queue are exactly as before the call.
C34_FailedCallLeavesNoTrace ==
    [][HandleTaskFailed =>
          /\ registry' = registry
          /\ task_queue' = task_queue]_vars

\* C35: a task's result is only ever pushed to the client handle that was
\* passed to the handle_task call which submitted that task, also when two
\* submissions from different handles use one correlation id while both are
\* in flight.
C35_PushOnlyToSubmitter ==
    \A d \in delivered : d.handle = tasks[d.result].client_context

\* the monitor thread ends a tick: the callback has returned and the loop
\* goes to sleep
MonitorTickEnds == mpc # "idle" /\ mpc' = "idle"

\* C36: at the end of every monitor tick, after the engine's scaling decision
\* and the pool's scaling callback have run, the live pool's size
\* current_worker_count equals the engine's target_workers.
C36_PoolSizeFollowsTargetEachTick ==
    [][MonitorTickEnds => current_worker_count' = target_workers']_vars

\* the monitor thread applies a scale-down step
ScaleDownApplied == mpc = "apply" /\ target_workers' < target_workers

\* C40: the engine never scales down while the dynamic pool's pending queue
\* is non-empty: in any interleaving of submit() (put, then publish qsize),
\* the submission loop (drain, then publish qsize) and the monitor tick, a
\* scale-down step is applied only in states where the pending queue holds
\* no task.
C40_NoScaleDownWithPendingTasks ==
    [][ScaleDownApplied => pending_tasks = <<>>]_vars

\* RemoteTaskManager with the TTL sweep of the registry left out
NextTcpNoSweep ==
    \/ (TcpIngress) /\ IngressIdle /\ EngineIdle /\ PoolIdle /\ AuxIdle
    \/ (Workers) /\ IngressIdle /\ EngineIdle /\ PoolIdle /\ AuxIdle
    \/ (Router) /\ IngressIdle /\ EngineIdle /\ PoolIdle /\ AuxIdle
    \/ (Poll) /\ IngressIdle /\ EngineIdle /\ PoolIdle /\ AuxIdle
    \/ (\E s \in Sockets : Disconnect(s)) /\ IngressIdle /\ EngineIdle /\ PoolIdle /\ AuxIdle

SpecTcpNoSweep == Init /\ [][NextTcpNoSweep]_vars

\* task n was accepted by handle_task under id c, and its result has neither
\* been pushed to a client nor been returned by a POLL
AcceptedAndUnanswered(n, c) ==
    /\ n \in 1..nsub
    /\ tasks[n].accepted
    /\ tasks[n].correlation_id = c
    /\ \A d \in delivered : d.result # n
    /\ poll_count[n] = 0

\* C37: without TTL sweeps, a POLL for the correlation id of a task that
\* handle_task accepted and whose result has neither been delivered to a
\* client nor popped by an earlier POLL never replies NOT_FOUND, in any
\* interleaving of the POLL handler (store lookup, then registry lookup) with
\* the response router (park, then registry removal).
C37_NoNotFoundForLiveTask ==
    [][\A n \in TaskNums :
          (PollRegistryStep /\ AcceptedAndUnanswered(n, pcid))
              => poll_reply'.status # "NOT_FOUND"]_vars

\* DynamicProcessPoolExecutor whose tasks end with a result or an exception,
\* with holders of the returned futures that may cancel them at any moment
PropagateStep ==
    (\E f \in Futures, v \in FutureValues : PropagateResult(f, v))
        /\ ManagerIdle /\ ObsIdle /\ AuxIdle

NextProxy ==
    \/ SubmitStep
    \/ LoopStep
    \/ LoopSubmitStep
    \/ CancelStep
    \/ PropagateStep

SpecProxy == InitPool /\ [][NextProxy]_vars

\* C39: whenever the real future of a QueuedFuture has reached a terminal
\* state (result, exception or cancelled), the proxy is in the matching
\* terminal state and its done-callbacks have fired exactly once, also when
\* the proxy was cancelled before submission or the real future is
\* cancelled.
C39_ProxyMirrorsRealFuture ==
    \A f \in Futures :
        RealTerminal(f) # "none" =>
            /\ ProxyTerminal(f) = RealTerminal(f)
            /\ proxy_callbacks[f] = 1

\* The submission loop's cycles over a queue filled by one submit_batch,
\* with the batch size of each cycle and its dequeues recorded
CycleBegin ==
    /\ LoopBegin
    /\ cycle_batch' = CalculateOptimalBatchSize(config, target_workers,
                                                task_queue_length)
    /\ cycle_taken' = 0
    /\ UNCHANGED <<mgr_submits, pool_submits>>
    /\ ManagerIdle /\ ObsIdle /\ CancelIdle /\ OtherAuxIdle

CycleGet ==
    /\ LoopGet
    /\ cycle_taken' = cycle_taken + (Len(pending_tasks) - Len(pending_tasks'))
    /\ UNCHANGED <<mgr_submits, pool_submits, cycle_batch>>
    /\ ManagerIdle /\ ObsIdle /\ CancelIdle /\ OtherAuxIdle

CyclePublish == LoopPublish /\ ManagerIdle /\ ObsIdle /\ CancelIdle /\ AuxIdle

NextCycle ==
    \/ BatchStep
    \/ CycleBegin
    \/ CycleGet
    \/ LoopSubmitStep
    \/ CyclePublish
    \/ IdleMonitorStep
    \/ CallbackStep
    \/ RescaleStep

SpecCycle == InitRamp /\ [][NextCycle]_vars

\* the submission thread ends a cycle and goes to sleep
CycleEnds == lpc # "idle" /\ lpc' = "idle"

\* C33: in one cycle of the dynamic pool's submission loop at most B_size
\* pending proxy futures are dequeued and submitted, B_size being what
\* calculate_optimal_batch_size returned at the start of that cycle, and at
\* the end of the cycle the engine's task_queue_length is set to the pending
\* queue's size.
C33_CycleTakesAtMostBatchSize ==
    /\ [](cycle_taken <= cycle_batch)
    /\ [][LoopSubmitReturns =>
            /\ fstate'[l_hand] = "submitted"
            /\ cycle_taken <= cycle_batch]_vars
    /\ [][CycleEnds =>
            /\ lpc = "publish"
            /\ task_queue_length' = Len(pending_tasks')]_vars

\* a cycle has taken its whole batch, the queue still holds proxies, and the
\* cycle has ended by publishing the queue's length
C33_Witness ==
    /\ lpc = "idle"
    /\ cycle_batch > 0
    /\ cycle_taken = cycle_batch
    /\ pending_tasks # <<>>
    /\ task_queue_length = Len(pending_tasks)
    /\ spc = "idle"

(***************************************************************************)
(* A running RemoteTaskManager that is shut down.                          *)
(***************************************************************************)
\* bound on the shutdown() calls of a behaviour
MaxShutdownCalls == 2

\* RemoteTaskManager.shutdown is entered: a call that finds _shutdown set
\* returns at once; the first call sets the flag and enters
\* BaseManager.shutdown, which sets _shutdown_event
ShutdownCall ==
    /\ sd_calls < MaxShutdownCalls
    /\ sd_pc \in {"none", "returned"}
    /\ sd_calls' = sd_calls + 1
    /\ IF rtm_shutdown
       THEN UNCHANGED <<shutdown_event, rtm_shutdown, sd_pc>>
       ELSE /\ rtm_shutdown' = TRUE
            /\ shutdown_event' = TRUE
            /\ sd_pc' = "join"
    /\ UNCHANGED <<main_pc, sub_pc, router_task, cleanup_task, mgr_executor>>
    /\ UNCHANGED mgr_vars

\* _main_async_loop wakes from its sleep with the event set, cancels the
\* three tasks and gathers them: each task is at an await (the submission
\* loop in to_thread(get_item), the router between two results) and leaves
\* its loop on CancelledError
MainLoopCancel ==
    /\ main_pc = "sleep"
    /\ shutdown_event
    /\ sub_pc # "check"
    /\ rpc = "idle"
    /\ main_pc' = "stopped"
    /\ sub_pc' = "stopped"
    /\ router_task' = "stopped"
    /\ cleanup_task' = "stopped"
    /\ UNCHANGED <<shutdown_event, rtm_shutdown, sd_pc, sd_calls, mgr_executor>>
    /\ UNCHANGED mgr_vars

\* _task_submission_loop_async: "while not self._shutdown_event.is_set()"
SubLoopCheck ==
    /\ sub_pc = "check"
    /\ sub_pc' = IF shutdown_event THEN "stopped" ELSE "get"
    /\ UNCHANGED <<shutdown_event, rtm_shutdown, sd_pc, sd_calls, main_pc,
                   router_task, cleanup_task, mgr_executor>>
    /\ UNCHANGED mgr_vars

\* _task_submission_loop_async: get_item returned a TaskNode, which is
\* submitted to the executor; on an executor that was shut down submit
\* raises RuntimeError, which is logged, and the TaskNode is dropped
SubLoopSubmit ==
    /\ sub_pc = "get"
    /\ sub_pc' = "check"
    /\ IF mgr_executor = "live"
       THEN SubmissionLoop
       ELSE /\ task_queue # <<>>
            /\ task_queue' = Tail(task_queue)
            /\ UNCHANGED <<registry, results, running, response_queue, rpc,
                           rres, rinfo, sock_open, waiter, ppc, pcid,
                           poll_reply, now, nsub, tasks, last_outcome,
                           delivered, parked, routed, poll_count, fresh,
                           orphaned>>
    /\ UNCHANGED <<shutdown_event, rtm_shutdown, sd_pc, sd_calls, main_pc,
                   router_task, cleanup_task, mgr_executor>>

\* _task_submission_loop_async: get_item timed out (queue.Empty): continue
SubLoopEmpty ==
    /\ sub_pc = "get"
    /\ task_queue = <<>>
    /\ sub_pc' = "check"
    /\ UNCHANGED <<shutdown_event, rtm_shutdown, sd_pc, sd_calls, main_pc,
                   router_task, cleanup_task, mgr_executor>>
    /\ UNCHANGED mgr_vars

\* _response_router_loop_async while its task runs
RouterWhileRunning ==
    /\ router_task = "running"
    /\ Router
    /\ UNCHANGED sd_vars

\* _response_router_loop_async finds the event set at the top of its loop
RouterLoopExit ==
    /\ router_task = "running"
    /\ shutdown_event
    /\ rpc = "idle"
    /\ router_task' = "stopped"
    /\ UNCHANGED <<shutdown_event, rtm_shutdown, sd_pc, sd_calls, main_pc,
                   sub_pc, cleanup_task, mgr_executor>>
    /\ UNCHANGED mgr_vars

\* _registry_cleanup_loop_async: the wait on the event returns with the
\* event set, and the loop breaks
CleanupLoopExit ==
    /\ cleanup_task = "running"
    /\ shutdown_event
    /\ cleanup_task' = "stopped"
    /\ UNCHANGED <<shutdown_event, rtm_shutdown, sd_pc, sd_calls, main_pc,
                   sub_pc, router_task, mgr_executor>>
    /\ UNCHANGED mgr_vars

\* BaseManager.shutdown: _manager_loop_thread.join(timeout=5) returns, the
\* thread having ended or the five seconds being over
JoinLoopThread ==
    /\ sd_pc = "join"
    /\ sd_pc' = "executor"
    /\ UNCHANGED <<shutdown_event, rtm_shutdown, sd_calls, main_pc, sub_pc,
                   router_task, cleanup_task, mgr_executor>>
    /\ UNCHANGED mgr_vars

\* BaseManager.shutdown: executor.shutdown(wait=True) refuses new work from
\* here on and waits
ExecutorShutdown ==
    /\ sd_pc = "executor"
    /\ mgr_executor' = "shutdown"
    /\ sd_pc' = "wait"
    /\ UNCHANGED <<shutdown_event, rtm_shutdown, sd_calls, main_pc, sub_pc,
                   router_task, cleanup_task>>
    /\ UNCHANGED mgr_vars

\* executor.shutdown(wait=True) returns: every submitted task has finished
ExecutorDrained ==
    /\ sd_pc = "wait"
    /\ running = {}
    /\ sd_pc' = "close"
    /\ UNCHANGED <<shutdown_event, rtm_shutdown, sd_calls, main_pc, sub_pc,
                   router_task, cleanup_task, mgr_executor>>
    /\ UNCHANGED mgr_vars

\* RemoteTaskManager.shutdown after super().shutdown(): the server socket is
\* closed and _thread_pool.shutdown(wait=True) returns when the client
\* handlers have seen _shutdown and closed their connections
CloseAndReturn ==
    /\ sd_pc = "close"
    /\ sock_open' = {}
    /\ sd_pc' = "returned"
    /\ UNCHANGED <<shutdown_event, rtm_shutdown, sd_calls, main_pc, sub_pc,
                   router_task, cleanup_task, mgr_executor>>
    /\ UNCHANGED <<registry, results, task_queue, running, response_queue,
                   rpc, rres, rinfo, waiter, ppc, pcid, poll_reply, now, nsub,
                   tasks, last_outcome, delivered, parked, routed, poll_count,
                   fresh, orphaned>>

ShutdownAlone ==
    /\ IngressIdle /\ EngineIdle /\ PoolIdle
    /\ RegistryIdle /\ StampIdle /\ SignatureIdle /\ DecodeIdle /\ StreamIdle
    /\ OnceIdle

ClientStep == TcpIngress /\ ShutdownAlone /\ ShutdownIdle
TaskCompleteStep ==
    (\E n \in TaskNums : OnTaskComplete(n)) /\ ShutdownAlone /\ ShutdownIdle
ShutdownCallStep == ShutdownCall /\ ShutdownAlone
SubLoopStep == (SubLoopCheck \/ SubLoopSubmit \/ SubLoopEmpty) /\ ShutdownAlone
RouterLoopStep == (RouterWhileRunning \/ RouterLoopExit) /\ ShutdownAlone
CleanupLoopStep == CleanupLoopExit /\ ShutdownAlone
MainLoopStep == MainLoopCancel /\ ShutdownAlone
ShutdownProgress ==
    (JoinLoopThread \/ ExecutorShutdown \/ ExecutorDrained \/ CloseAndReturn)
        /\ ShutdownAlone

NextShutdown ==
    \/ ClientStep
    \/ TaskCompleteStep
    \/ ShutdownCallStep
    \/ SubLoopStep
    \/ RouterLoopStep
    \/ CleanupLoopStep
    \/ MainLoopStep
    \/ ShutdownProgress

\* the event loop runs its tasks and the thread inside shutdown() goes on;
\* nothing bounds the run time of a task in a worker process, and nothing
\* makes anyone call shutdown()
FairSpecShutdown ==
    /\ Init
    /\ [][NextShutdown]_vars
    /\ WF_vars(SubLoopStep)
    /\ WF_vars(RouterLoopStep)
    /\ WF_vars(CleanupLoopStep)
    /\ SF_vars(MainLoopStep)
    /\ WF_vars(ShutdownProgress)

\* the three loops of the manager have ended
LoopsStopped ==
    /\ sub_pc = "stopped"
    /\ router_task = "stopped"
    /\ cleanup_task = "stopped"

\* a TaskNode is handed to the executor
TaskNodeSubmitted == running' \ running # {}

\* a shutdown() call that finds _shutdown set
SecondShutdownCall == sd_calls' # sd_calls /\ rtm_shutdown

\* C31: after shutdown() is called on a running manager, the submission,
\* router and cleanup loops all eventually stop, no further TaskNode is
\* submitted to the executor, and shutdown() returns; a second shutdown()
\* call on RemoteTaskManager has no further effect.
C31_ShutdownStopsEverything ==
    /\ shutdown_event ~> LoopsStopped
    /\ [][TaskNodeSubmitted => ~shutdown_event]_vars
    /\ shutdown_event ~> (sd_pc = "returned")
    /\ [][SecondShutdownCall =>
            UNCHANGED <<mgr_vars, shutdown_event, rtm_shutdown, sd_pc,
                        main_pc, sub_pc, router_task, cleanup_task,
                        mgr_executor>>]_vars

TypeOK ==
    /\ nsub \in 0..MaxSubmits
    /\ Len(task_queue) <= MaxSubmits

====
